---- MODULE Spec2Model ----
(***************************************************************************)
(* Segment rule resolution, segment management, campaign execution and the *)
(* order consumer of the CRM backend, as state machines.                   *)
(*                                                                         *)
(*   SpecResolve  : the audience resolver applied to bounded rules/stores  *)
(*   SpecSegments : segment creation and update                            *)
(*   Spec         : campaigns (create, update, execute, consumer)          *)
(*   SpecExecute  : campaign creation and execution alone                  *)
(*   SpecOrders   : the order-created consumer, handlers interleaved       *)
(*   SpecRefresh  : refreshAudienceSize calls interleaved with rule edits  *)
(*   SpecAudience : segment, campaign, customer and order services together*)
(*   SpecReads    : resolver calls between customer updates                *)
(*   SpecRanges   : the resolver on single between / notBetween conditions *)
(*   SpecLookalike: lookalike audiences over executed campaigns            *)
(*   SpecAnalyzer : the lookalike analyzer on reference populations        *)
(*   SpecRuns     : several executeCampaign calls for one campaign         *)
(*   SpecRunsFair : SpecRuns with every invocation resumed                 *)
(*   SpecReceipts : delivery receipts and the delivery-status consumer     *)
(***************************************************************************)
EXTENDS Integers, Sequences, FiniteSets, TLC

VARIABLES
  customers,   \* customers table: id -> row
  resp,        \* outcome of the last resolver call (find / count / preview)
  segments,    \* segments table: id -> row
  segResp,     \* outcome of the last segment-service call
  refresh,     \* refreshAudienceSize invocations: locals + position of each
  campaigns,   \* campaigns table: id -> row
  exec,        \* executeCampaign invocations: locals + position of each
  cons,        \* campaign-created consumer invocation: locals + position
  logs,        \* communication_logs table: set of rows
  published,   \* campaign:created messages published, not yet picked up
  orders,      \* orders table: set of stored order events
  queue,       \* order-created events published, not yet picked up
  handlers,    \* order consumer handlers in flight: event -> position + locals
  clock,       \* wall-clock time, as read by new Date()
  lookalike,   \* outcome of the last lookalike call
  receipts     \* delivery-status handlers: locals + position of each

vars == <<customers, resp, segments, segResp, refresh, campaigns, exec, cons, logs,
          published, orders, queue, handlers, clock, lookalike, receipts>>

segVars == <<segments, segResp, refresh>>
campVars == <<campaigns, exec, cons, logs, published>>
orderVars == <<orders, queue, handlers>>

----------------------------------------------------------------------------
(* Bounds *)

MaxCustomers == 2
MaxConds == 2
MaxSegments == 1
MaxCampaigns == 1
MaxOrders == 2
MaxClock == 2
MaxExecs == 1
MaxRefresh == 2
MaxPopulation == 10
MaxRuns == 2
MaxReceipts == 2

----------------------------------------------------------------------------
(* Text: a string is a sequence of one-character strings *)

Vip == <<"v", "i", "p">>
New == <<"n", "e", "w">>
DomX == <<"@", "x">>
NoText == << >>

\* case folding done by ILIKE
Lower(ch) == CASE ch = "A" -> "a" [] ch = "B" -> "b" [] ch = "X" -> "x" [] OTHER -> ch

LowerText(t) == [i \in 1..Len(t) |-> Lower(t[i])]

IsSubstringAt(t, p, i) ==
  /\ i >= 1
  /\ i + Len(p) - 1 <= Len(t)
  /\ \A k \in 1..Len(p) : Lower(t[i + k - 1]) = Lower(p[k])

\* column ILIKE '%p%'
ILikeContains(t, p) == \E i \in 1..(Len(t) + 1) : IsSubstringAt(t, p, i)
\* column ILIKE 'p%'
ILikeStartsWith(t, p) == IsSubstringAt(t, p, 1)
\* column ILIKE '%p'
ILikeEndsWith(t, p) == IsSubstringAt(t, p, Len(t) - Len(p) + 1)

----------------------------------------------------------------------------
(* Customers *)

CustIds == 1..MaxCustomers

NumericColumns == {"total_spend", "total_visits"}
TextColumns == {"email"}
ArrayColumns == {"tags"}
Columns == NumericColumns \cup TextColumns \cup ArrayColumns

\* last_visit_date is NULL (0) until an order event sets it
Customer(spend, visits, tags, email) ==
  [total_spend |-> spend, total_visits |-> visits, tags |-> tags, email |-> email,
   last_visit_date |-> 0]

CustomerPool ==
  { Customer(15000, 2, {Vip}, <<"a", "@", "x">>),
    Customer(500, 0, {}, <<"b", "@", "y">>),
    Customer(10000, 5, {New}, <<"A", "b", "@", "X">>) }

NumField(c, f) == IF f = "total_spend" THEN c.total_spend ELSE c.total_visits

----------------------------------------------------------------------------
(* Rules *)

Undefined == "undefined"

\* A condition object.  `operation` is the key of the persisted shape;
\* `operator` is the key the older clients put the comparison under.
\* kind says what `value` is: "num" (num), "text" (text), "pair" ([num, hi]).
Cond(field, operator, operation, kind, num, hi, text) ==
  [field |-> field, operator |-> operator, operation |-> operation,
   kind |-> kind, num |-> num, hi |-> hi, text |-> text]

PNum(field, op, n) == Cond(field, Undefined, op, "num", n, 0, NoText)
PText(field, op, t) == Cond(field, Undefined, op, "text", 0, 0, t)
PPair(field, op, lo, hi) == Cond(field, Undefined, op, "pair", lo, hi, NoText)
LNum(field, op, n) == Cond(field, op, Undefined, "num", n, 0, NoText)
LText(field, op, t) == Cond(field, op, Undefined, "text", 0, 0, t)
LPair(field, op, lo, hi) == Cond(field, op, Undefined, "pair", lo, hi, NoText)

\* persisted shape {field, operation, value}
PersistedConds ==
  { PNum("total_spend", "greaterThan", 10000),
    PText("tags", "contains", Vip),
    PPair("total_spend", "between", 500, 10000),
    PNum("total_spend", "fuzzyMatch", 1) }

\* shape {field, operator, value}
LegacyConds ==
  { LNum("total_spend", "greaterThan", 10000),
    LNum("total_visits", "<=", 2),
    LText("email", "ends_with", DomX),
    LNum("total_spend", "fuzzyMatch", 1) }

\* ill-formed conditions: unknown field, inverted bounds, operator/field mismatch
IllFormedConds ==
  { PNum("favorite_color", "equals", 1),
    PPair("total_spend", "between", 10000, 500),
    LText("total_spend", "contains", Vip) }

ConditionPool == PersistedConds \cup LegacyConds

CondSeqs(n) == UNION { [1..k -> ConditionPool] : k \in 0..n }

\* hasConditions = FALSE models a rules object without a conditions array
Group(op, conds) == [operator |-> op, hasConditions |-> TRUE, conditions |-> conds]

RuleSet ==
  { Group(op, cs) : op \in {"AND", "OR"}, cs \in CondSeqs(MaxConds) }
  \cup { [operator |-> "AND", hasConditions |-> FALSE, conditions |-> << >>] }

----------------------------------------------------------------------------
(* Rule semantics of the design: matches(customer, rule) *)

OperatorKind ==
  { "equals", "notEquals", "greaterThan", "lessThan", "greaterThanOrEqual",
    "lessThanOrEqual", "contains", "notContains", "startsWith", "endsWith",
    "between", "notBetween", "isEmpty", "isNotEmpty", "isInLast", "isNotInLast" }

NumericOps ==
  { "equals", "notEquals", "greaterThan", "lessThan", "greaterThanOrEqual",
    "lessThanOrEqual", "between", "notBetween" }
TextOps == { "contains", "notContains", "startsWith", "endsWith" }
TagOps == { "contains", "notContains" }

\* the name of the comparison a condition asks for, under either key
OpName(cond) == IF cond.operation # Undefined THEN cond.operation ELSE cond.operator

\* construction contract of a Condition whose comparison is named n: field in
\* the vocabulary, comparison compatible with the field's type, value arity
\* matching the comparison (between: two bounds, lower <= upper)
WellFormed(cond, n) ==
  /\ cond.field \in Columns
  /\ (cond.field \in NumericColumns /\ n \in OperatorKind) =>
       /\ n \in NumericOps
       /\ IF n \in {"between", "notBetween"}
            THEN cond.kind = "pair" /\ cond.num <= cond.hi
            ELSE cond.kind = "num"
  /\ (cond.field \in TextColumns /\ n \in OperatorKind) =>
       (n \in TextOps /\ cond.kind = "text")
  /\ (cond.field \in ArrayColumns /\ n \in OperatorKind) =>
       (n \in TagOps /\ cond.kind = "text")

ValidCondition(cond) ==
  cond.operation \in OperatorKind /\ WellFormed(cond, cond.operation)

ValidRule(rules) ==
  /\ rules.hasConditions
  /\ rules.operator \in {"AND", "OR"}
  /\ Len(rules.conditions) >= 1
  /\ \A i \in 1..Len(rules.conditions) : ValidCondition(rules.conditions[i])

MatchesNumeric(x, cond) ==
  CASE cond.operation = "equals" -> x = cond.num
    [] cond.operation = "notEquals" -> x # cond.num
    [] cond.operation = "greaterThan" -> x > cond.num
    [] cond.operation = "lessThan" -> x < cond.num
    [] cond.operation = "greaterThanOrEqual" -> x >= cond.num
    [] cond.operation = "lessThanOrEqual" -> x <= cond.num
    [] cond.operation = "between" -> cond.num <= x /\ x <= cond.hi
    [] cond.operation = "notBetween" -> ~(cond.num <= x /\ x <= cond.hi)
    [] OTHER -> FALSE

MatchesText(t, cond) ==
  CASE cond.operation = "contains" -> ILikeContains(t, cond.text)
    [] cond.operation = "notContains" -> ~ILikeContains(t, cond.text)
    [] cond.operation = "startsWith" -> ILikeStartsWith(t, cond.text)
    [] cond.operation = "endsWith" -> ILikeEndsWith(t, cond.text)
    [] OTHER -> FALSE

MatchesTags(tags, cond) ==
  CASE cond.operation = "contains" -> cond.text \in tags
    [] cond.operation = "notContains" -> cond.text \notin tags
    [] OTHER -> FALSE

\* defined for valid conditions
MatchesCondition(c, cond) ==
  IF cond.field \in NumericColumns THEN MatchesNumeric(NumField(c, cond.field), cond)
  ELSE IF cond.field \in TextColumns THEN MatchesText(c.email, cond)
  ELSE MatchesTags(c.tags, cond)

\* defined for valid rules: AND = every child true, OR = some child true
Matches(c, rules) ==
  IF rules.operator = "AND"
    THEN \A i \in 1..Len(rules.conditions) : MatchesCondition(c, rules.conditions[i])
    ELSE \E i \in 1..Len(rules.conditions) : MatchesCondition(c, rules.conditions[i])

----------------------------------------------------------------------------
(* customer.service: findCustomersBySegment / countCustomersBySegment *)

\* the query-builder call the switch on condition.operator makes ("none": no call)
FilterOf(cond) ==
  CASE cond.operator \in {"=", "equals"} -> "eq"
    [] cond.operator \in {"!=", "notEquals"} -> "neq"
    [] cond.operator \in {">", "greaterThan"} -> "gt"
    [] cond.operator \in {"<", "lessThan"} -> "lt"
    [] cond.operator \in {">=", "greaterThanOrEqual"} -> "gte"
    [] cond.operator \in {"<=", "lessThanOrEqual"} -> "lte"
    [] cond.operator = "contains" -> IF cond.field = "tags" THEN "cs" ELSE "ilike"
    [] cond.operator = "not_contains" -> IF cond.field = "tags" THEN "none" ELSE "not_ilike"
    [] cond.operator = "starts_with" -> "ilike_prefix"
    [] cond.operator = "ends_with" -> "ilike_suffix"
    [] cond.operator = "between" -> IF cond.kind = "pair" THEN "range" ELSE "none"
    [] OTHER -> "none"

\* the store rejects a filter on a column the table lacks or of the wrong type
FilterRejected(cond) ==
  LET f == FilterOf(cond) IN
  /\ f # "none"
  /\ \/ cond.field \notin Columns
     \/ f \in {"eq", "neq", "gt", "lt", "gte", "lte"}
          /\ ~(cond.field \in NumericColumns /\ cond.kind = "num")
     \/ f = "range" /\ cond.field \notin NumericColumns
     \/ f \in {"ilike", "not_ilike", "ilike_prefix", "ilike_suffix"}
          /\ ~(cond.field \in TextColumns /\ cond.kind = "text")
     \/ f = "cs" /\ cond.kind # "text"

\* whether a row passes the filter of one condition (accepted filters only)
RowPasses(c, cond) ==
  LET f == FilterOf(cond) IN
  CASE f = "none" -> TRUE
    [] f = "eq" -> NumField(c, cond.field) = cond.num
    [] f = "neq" -> NumField(c, cond.field) # cond.num
    [] f = "gt" -> NumField(c, cond.field) > cond.num
    [] f = "lt" -> NumField(c, cond.field) < cond.num
    [] f = "gte" -> NumField(c, cond.field) >= cond.num
    [] f = "lte" -> NumField(c, cond.field) <= cond.num
    [] f = "range" -> NumField(c, cond.field) >= cond.num /\ NumField(c, cond.field) <= cond.hi
    [] f = "cs" -> cond.text \in c.tags
    [] f = "ilike" -> ILikeContains(c.email, cond.text)
    [] f = "not_ilike" -> ~ILikeContains(c.email, cond.text)
    [] f = "ilike_prefix" -> ILikeStartsWith(c.email, cond.text)
    [] f = "ilike_suffix" -> ILikeEndsWith(c.email, cond.text)

\* rules && rules.conditions && Array.isArray(rules.conditions)
ConditionsOf(rules) == IF rules.hasConditions THEN rules.conditions ELSE << >>

Failure(msg) == [ok |-> FALSE, error |-> msg, rows |-> {}, count |-> 0]
Rows(rs) == [ok |-> TRUE, error |-> "", rows |-> rs, count |-> Cardinality(rs)]

\* fault: the store call fails (connection, timeout)
findCustomersBySegment(rules, store, fault) ==
  LET conds == ConditionsOf(rules) IN
  IF fault \/ \E i \in 1..Len(conds) : FilterRejected(conds[i])
    THEN Failure("Failed to find customers by segment")
    ELSE Rows({ id \in DOMAIN store :
                  \A i \in 1..Len(conds) : RowPasses(store[id], conds[i]) })

\* mutant: a count-only query that forgets the rule's filters
countCustomersBySegment_Unfiltered(rules, store, fault) ==
  IF fault THEN Failure("Failed to find customers by segment") ELSE Rows(DOMAIN store)

\* customers.length of findCustomersBySegment(rules); its error propagates
countCustomersBySegment(rules, store, fault) ==
  LET found == findCustomersBySegment(rules, store, fault) IN
  IF found.ok THEN [found EXCEPT !.rows = {}] ELSE found

----------------------------------------------------------------------------
(* segment.service: previewSegmentAudience *)

PreviewSampleSize == 5

\* customers.slice(0, 5): the first rows of the result, in id order
previewSegmentAudience(rules, store, fault) ==
  LET found == findCustomersBySegment(rules, store, fault) IN
  [found EXCEPT !.rows = { id \in found.rows :
      Cardinality({ j \in found.rows : j < id }) < PreviewSampleSize }]

----------------------------------------------------------------------------
(* Initial values *)

EmptyRules == Group("AND", << >>)

NoResp ==
  [op |-> "none", rules |-> EmptyRules, ok |-> TRUE, error |-> "", rows |-> {}, count |-> 0]

Response(op, rules, r) ==
  [op |-> op, rules |-> rules, ok |-> r.ok, error |-> r.error, rows |-> r.rows,
   count |-> r.count]

Null == 0
Users == {"u1", "u2"}
SegIds == 1..MaxSegments
CampIds == 1..MaxCampaigns
ExecIds == 1..MaxExecs

SegmentRow(rules, userId) ==
  [rules |-> rules, created_by |-> userId, audience_size |-> 0,
   last_calculated_at |-> Null]

\* what a segment-service call gave back: ok = FALSE when it threw, row is
\* the segment it returned, countFailed whether its count query failed
SegResponse(op, ok, id, row, countFailed) ==
  [op |-> op, ok |-> ok, id |-> id, rules |-> row.rules,
   audience_size |-> row.audience_size,
   last_calculated_at |-> row.last_calculated_at, countFailed |-> countFailed]

NoRow == SegmentRow(EmptyRules, "u1")

NoSegResp == SegResponse("none", TRUE, 0, NoRow, FALSE)

\* locals of a refreshAudienceSize invocation; pc is its position
RefIds == 1..MaxRefresh

NoRefresh ==
  [pc |-> "idle", segmentId |-> 0, userId |-> "u1", rules |-> EmptyRules,
   audienceSize |-> 0, calculatedAt |-> Null, error |-> ""]

\* locals of an executeCampaign invocation; pc is its position, wrote the
\* last status it stored, error the message of the error it ends with
NoExec ==
  [pc |-> "idle", campaignId |-> 0, userId |-> "u1", segment_id |-> Null,
   customers |-> {}, sentCount |-> 0, failedCount |-> 0,
   attempts |-> [id \in CustIds |-> 0], wrote |-> "", error |-> ""]

\* locals of a processCampaignCreation invocation
NoCons ==
  [pc |-> "idle", id |-> Null, hasTemplate |-> FALSE, customers |-> {},
   sentCount |-> 0, failedCount |-> 0, attempts |-> [id \in CustIds |-> 0]]

\* no lookalike call answered yet; empty: the call found no delivered
\* customer, failed: a store call of it failed; confidence is Null when the
\* result has no such field
NoLookalike ==
  [op |-> "none", ok |-> TRUE, empty |-> FALSE, failed |-> FALSE,
   rules |-> EmptyRules, confidence |-> Null]

\* locals of a processDeliveryStatus invocation: the message it was given,
\* the counter column it chose and the value it read
ReceiptIds == 1..MaxReceipts

NoReceipt ==
  [pc |-> "idle", status |-> "", campaignId |-> Null, updateField |-> "",
   count |-> 0]

InitRest ==
  /\ lookalike = NoLookalike
  /\ receipts = [n \in ReceiptIds |-> NoReceipt]
  /\ resp = NoResp
  /\ segments = << >>
  /\ segResp = NoSegResp
  /\ refresh = [r \in RefIds |-> NoRefresh]
  /\ campaigns = << >>
  /\ exec = [e \in ExecIds |-> NoExec]
  /\ cons = NoCons
  /\ logs = {}
  /\ published = {}
  /\ orders = {}
  /\ queue = {}
  /\ handlers = << >>
  /\ clock = 1

----------------------------------------------------------------------------
(* SpecResolve: resolver calls on a fixed store *)

InitResolve ==
  /\ customers \in [CustIds -> CustomerPool]
  /\ InitRest

\* mutant: the query stamps the rows it reads
customersAfterSelect_Stamped(store) ==
  [id \in DOMAIN store |-> [store[id] EXCEPT !.last_visit_date = 1]]

\* supabase.from("customers").select("*"): the table after the query
customersAfterSelect(store) == store

CallFindCustomersBySegment(rules, fault) ==
  /\ resp.op = "none"
  /\ resp' = Response("find", rules, findCustomersBySegment(rules, customers, fault))
  /\ customers' = customersAfterSelect(customers)
  /\ UNCHANGED <<segVars, campVars, orderVars, clock, lookalike, receipts>>

CallCountCustomersBySegment(rules, fault) ==
  /\ resp.op = "none"
  /\ resp' = Response("count", rules, countCustomersBySegment(rules, customers, fault))
  /\ customers' = customersAfterSelect(customers)
  /\ UNCHANGED <<segVars, campVars, orderVars, clock, lookalike, receipts>>

CallPreviewSegmentAudience(rules, fault) ==
  /\ resp.op = "none"
  /\ resp' = Response("preview", rules, previewSegmentAudience(rules, customers, fault))
  /\ customers' = customersAfterSelect(customers)
  /\ UNCHANGED <<segVars, campVars, orderVars, clock, lookalike, receipts>>

\* the caller takes the answer; the next request can be served
ReturnToCaller ==
  /\ resp.op # "none"
  /\ resp' = NoResp
  /\ UNCHANGED <<customers, segVars, campVars, orderVars, clock, lookalike, receipts>>

NextResolve ==
  \/ /\ resp.op = "none"
     /\ \E rules \in RuleSet, fault \in BOOLEAN :
          \/ CallFindCustomersBySegment(rules, fault)
          \/ CallCountCustomersBySegment(rules, fault)
          \/ CallPreviewSegmentAudience(rules, fault)
  \/ ReturnToCaller

SpecResolve == InitResolve /\ [][NextResolve]_vars

----------------------------------------------------------------------------
(* Claims on the resolver, checked under SpecResolve *)

BruteForce(rules) == { id \in DOMAIN customers : Matches(customers[id], rules) }

\* C1: for every valid rule tree and every store, findCustomersBySegment
\* returns exactly the customers for which the rule evaluates to true.
C1_ResolveEqualsBruteForce ==
  (resp.op = "find" /\ resp.ok /\ ValidRule(resp.rules))
    => resp.rows = BruteForce(resp.rules)

\* the case labels of the resolver's switch
SwitchLabels ==
  { "=", "equals", "!=", "notEquals", ">", "greaterThan", "<", "lessThan",
    ">=", "greaterThanOrEqual", "<=", "lessThanOrEqual", "contains",
    "not_contains", "starts_with", "ends_with", "between" }

\* some condition names an operation neither the design nor the switch knows
HasUnsupportedOperation(rules) ==
  \E i \in 1..Len(ConditionsOf(rules)) :
    OpName(rules.conditions[i]) \notin (OperatorKind \cup SwitchLabels)

\* C2: a rule with a condition naming an operation the resolver does not
\* implement makes resolution fail with UnsupportedOperatorError.
C2_UnsupportedOperationFails ==
  (resp.op = "find" /\ HasUnsupportedOperation(resp.rules))
    => (~resp.ok /\ resp.error = "UnsupportedOperatorError")

\* C3: a Group with an empty (or absent) conditions list resolves to the empty
\* set and counts 0, for AND and OR alike.
C3_EmptyGroupMatchesNothing ==
  (resp.op \in {"find", "count"} /\ resp.ok /\ Len(ConditionsOf(resp.rules)) = 0)
    => (resp.rows = {} /\ resp.count = 0)

PersistedShape(rules) ==
  /\ ValidRule(rules)
  /\ \A i \in 1..Len(rules.conditions) : rules.conditions[i].operator = Undefined

\* C4: a rule whose conditions have the persisted shape {field, operation,
\* value} is honoured: no returned customer satisfies none of its conditions.
C4_PersistedShapeHonoured ==
  (resp.op = "find" /\ resp.ok /\ PersistedShape(resp.rules))
    => \A id \in resp.rows :
         \E i \in 1..Len(resp.rules.conditions) :
           MatchesCondition(customers[id], resp.rules.conditions[i])

\* C5: countCustomersBySegment(rule) equals the number of customers returned
\* by findCustomersBySegment(rule) on the same store snapshot.
C5_CountEqualsResolveLength ==
  resp.op = "count" =>
    LET found == findCustomersBySegment(resp.rules, customers, ~resp.ok) IN
    /\ resp.ok = found.ok
    /\ resp.ok => resp.count = Cardinality(found.rows)

\* a count call has answered for a rule that selects some, not all, customers
C5_Witness ==
  /\ resp.op = "count"
  /\ resp.ok
  /\ resp.count > 0
  /\ resp.count < Cardinality(DOMAIN customers)

----------------------------------------------------------------------------
(* segment.service: createSegment, updateSegment, refreshAudienceSize *)


\* rules a client submits when creating or editing a segment
SegmentRuleInputs ==
  { Group("AND", <<PNum("total_spend", "greaterThan", 10000)>>),
    Group("OR", <<LNum("total_spend", "greaterThan", 10000)>>),
    EmptyRules }
  \cup { Group("AND", <<c>>) : c \in IllFormedConds }

\* row after .update(patch): the patched columns replaced, the others kept
Patched(row, patch) ==
  [f \in DOMAIN row |-> IF f \in DOMAIN patch THEN patch[f] ELSE row[f]]

\* .update(...).eq("id", id).eq("created_by", userId).single(): no matching
\* row, or a failing store call, is an error and updateSegment returns null
updateSegment(segs, id, patch, userId, fault) ==
  IF fault \/ id \notin DOMAIN segs \/ segs[id].created_by # userId
    THEN [ok |-> FALSE, segs |-> segs]
    ELSE [ok |-> TRUE, segs |-> [segs EXCEPT ![id] = Patched(segs[id], patch)]]

\* mutant: the count failure is rethrown to the caller
createSegmentCatch_Rethrow(inserted, id, data) ==
  [segs |-> inserted, resp |-> SegResponse("createSegment", FALSE, id, data, TRUE)]

\* catch (err) { return data }: the inserted row stays, the caller gets it
createSegmentCatch(inserted, id, data) ==
  [segs |-> inserted, resp |-> SegResponse("createSegment", TRUE, id, data, TRUE)]

\* createSegment(segmentData, userId); the three faults are failures of the
\* insert, of the count query and of the follow-up update
createSegment(rules, userId, insertFault, countFault, updateFault) ==
  /\ segResp.op = "none"
  /\ Cardinality(DOMAIN segments) < MaxSegments
  /\ LET id == CHOOSE i \in SegIds : i \notin DOMAIN segments
         data == SegmentRow(rules, userId)
         inserted == [i \in DOMAIN segments \cup {id} |->
                        IF i = id THEN data ELSE segments[i]]
         counted == countCustomersBySegment(rules, customers, countFault)
         updated == updateSegment(inserted, id,
                      [audience_size |-> counted.count, last_calculated_at |-> clock],
                      userId, updateFault)
     IN
     IF insertFault
       THEN /\ segments' = segments
            /\ segResp' = SegResponse("createSegment", FALSE, 0, NoRow, FALSE)
       ELSE IF ~counted.ok
         THEN /\ segments' = createSegmentCatch(inserted, id, data).segs
              /\ segResp' = createSegmentCatch(inserted, id, data).resp
         ELSE /\ segments' = updated.segs
              /\ segResp' = SegResponse("createSegment", TRUE, id,
                   IF updated.ok THEN updated.segs[id]
                   ELSE [data EXCEPT !.audience_size = counted.count], FALSE)
  /\ UNCHANGED <<customers, resp, refresh, campVars, orderVars, clock, lookalike, receipts>>

\* PUT /segments/:id -> updateSegment(id, req.body, userId)
CallUpdateSegment(id, rules, userId, fault) ==
  /\ segResp.op = "none"
  /\ id \in DOMAIN segments
  /\ LET updated == updateSegment(segments, id, [rules |-> rules], userId, fault) IN
     /\ segments' = updated.segs
     /\ segResp' = SegResponse("updateSegment", updated.ok, id,
                      IF updated.ok THEN updated.segs[id] ELSE NoRow, FALSE)
  /\ UNCHANGED <<customers, resp, refresh, campVars, orderVars, clock, lookalike, receipts>>

\* the caller of the segment service takes the answer
ReturnFromSegmentService ==
  /\ segResp.op # "none"
  /\ segResp' = NoSegResp
  /\ UNCHANGED <<customers, resp, segments, refresh, campVars, orderVars, clock, lookalike, receipts>>

\* new Date() advances between requests
Tick ==
  /\ clock < MaxClock
  /\ clock' = clock + 1
  /\ UNCHANGED <<customers, resp, segVars, campVars, orderVars, lookalike, receipts>>

\* the customers the segment and campaign services run against
ServicePool ==
  { Customer(15000, 2, {Vip}, <<"a", "@", "x">>),
    Customer(500, 0, {}, <<"b", "@", "y">>) }

InitSegments ==
  /\ customers \in [CustIds -> ServicePool]
  /\ InitRest

NextSegments ==
  \/ /\ segResp.op = "none"
     /\ \E rules \in SegmentRuleInputs, u \in Users :
          \/ \E f1, f2, f3 \in BOOLEAN : createSegment(rules, u, f1, f2, f3)
          \/ \E id \in SegIds, f \in BOOLEAN : CallUpdateSegment(id, rules, u, f)
  \/ ReturnFromSegmentService
  \/ Tick

SpecSegments == InitSegments /\ [][NextSegments]_vars

----------------------------------------------------------------------------
(* Claims on segment creation, checked under SpecSegments *)

\* a condition outside the construction contract, under either key
HasIllFormedCondition(rules) ==
  \E i \in 1..Len(ConditionsOf(rules)) :
    ~WellFormed(rules.conditions[i], OpName(rules.conditions[i]))

\* C6: createSegment rejects, and persists nothing, for a rule with a
\* condition outside the construction contract; no such rule is ever stored.
C6_InvalidRuleNeverStored ==
  /\ \A id \in DOMAIN segments : ~HasIllFormedCondition(segments[id].rules)
  /\ (segResp.op = "createSegment" /\ HasIllFormedCondition(segResp.rules))
       => ~segResp.ok

\* C10: if counting the audience fails during createSegment, createSegment
\* still returns the created segment, persisted with audience_size 0 and
\* last_calculated_at null.
C10_CountFailureKeepsSegment ==
  (segResp.op = "createSegment" /\ segResp.countFailed) =>
    /\ segResp.ok
    /\ segResp.id \in DOMAIN segments
    /\ segResp.audience_size = 0
    /\ segResp.last_calculated_at = Null
    /\ segments[segResp.id].audience_size = 0
    /\ segments[segResp.id].last_calculated_at = Null

\* createSegment has returned after its count query failed
C10_Witness ==
  /\ segResp.op = "createSegment"
  /\ segResp.countFailed
  /\ segResp.id \in DOMAIN segments

----------------------------------------------------------------------------
(* campaign.service: createCampaign, updateCampaignForUser, updateCampaign *)

\* the row createCampaign inserts
CampaignRow(segmentId, userId) ==
  [segment_id |-> segmentId, created_by |-> userId, status |-> "draft",
   audience_size |-> 0, sent_count |-> 0, failed_count |-> 0]

\* .select("*").eq("id", id).eq("created_by", userId).single(); an error
\* (no such row, or a failing store call) gives null
getCampaignByIdForUser(camps, id, userId, fault) ==
  IF fault \/ id \notin DOMAIN camps \/ camps[id].created_by # userId
    THEN [found |-> FALSE, row |-> CampaignRow(Null, userId)]
    ELSE [found |-> TRUE, row |-> camps[id]]

\* .update(updateData).eq("id", id).select().single(): throws on an error
updateCampaign(camps, id, updateData, fault) ==
  IF fault \/ id \notin DOMAIN camps
    THEN [ok |-> FALSE, camps |-> camps]
    ELSE [ok |-> TRUE, camps |-> [camps EXCEPT ![id] = Patched(camps[id], updateData)]]

\* createCampaign(campaignData, userId): segmentId may be undefined (Null);
\* the faults are failures of the insert, the count and the audience update
createCampaign(segmentId, userId, insertFault, countFault, updateFault) ==
  /\ Cardinality(DOMAIN campaigns) < MaxCampaigns
  /\ LET id == CHOOSE i \in CampIds : i \notin DOMAIN campaigns
         inserted == [i \in DOMAIN campaigns \cup {id} |->
                        IF i = id THEN CampaignRow(segmentId, userId)
                        ELSE campaigns[i]]
         counted == IF segmentId \in DOMAIN segments
                      THEN countCustomersBySegment(segments[segmentId].rules,
                                                   customers, countFault)
                      ELSE Failure("no segment")
     IN
     IF insertFault
       THEN UNCHANGED <<campaigns, published, lookalike, receipts>>
       ELSE /\ campaigns' = IF counted.ok /\ ~updateFault
                              THEN [inserted EXCEPT ![id].audience_size = counted.count]
                              ELSE inserted
            /\ published' = published \cup {id}
  /\ UNCHANGED <<customers, resp, segVars, exec, cons, logs, orderVars, clock, lookalike, receipts>>

\* mutant: an update of the status also resets the stored audience size
MappedData_ResetAudience(segmentId, status) ==
  IF segmentId = Null
    THEN (IF status = Undefined THEN << >>
          ELSE [status |-> status, audience_size |-> 0])
    ELSE (IF status = Undefined THEN [segment_id |-> segmentId]
          ELSE [segment_id |-> segmentId, status |-> status])

\* the columns updateCampaignForUser writes: undefined values are removed
MappedData(segmentId, status) ==
  IF segmentId = Null
    THEN (IF status = Undefined THEN << >> ELSE [status |-> status])
    ELSE (IF status = Undefined THEN [segment_id |-> segmentId]
          ELSE [segment_id |-> segmentId, status |-> status])

\* updateCampaignForUser(id, updateData, userId); updateData.status is stored
\* as given; with a segment id the audience size is recalculated
updateCampaignForUser(id, segmentId, status, userId, fault, countFault) ==
  /\ id \in DOMAIN campaigns
  /\ LET owned == getCampaignByIdForUser(campaigns, id, userId, fault).found
         written == [campaigns EXCEPT
                       ![id] = Patched(campaigns[id], MappedData(segmentId, status))]
         counted == IF segmentId \in DOMAIN segments
                      THEN countCustomersBySegment(segments[segmentId].rules,
                                                   customers, countFault)
                      ELSE Failure("no segment")
     IN
     campaigns' = IF ~owned THEN campaigns
                  ELSE IF counted.ok
                    THEN [written EXCEPT ![id].audience_size = counted.count]
                    ELSE written
  /\ UNCHANGED <<customers, resp, segVars, exec, cons, logs, published,
                 orderVars, clock, lookalike, receipts>>

\* updateData a caller passes to updateCampaignForUser: a status, or a segment
UpdateInputs ==
  { [segmentId |-> Null, status |-> "PENDING"],
    [segmentId |-> Null, status |-> "sending"] }
  \cup { [segmentId |-> 1, status |-> Undefined] }

----------------------------------------------------------------------------
(* campaign.service: executeCampaign *)

\* what one delivery can do: the send succeeds, the send reports a failure,
\* or a statement of the loop body throws
DeliveryOutcomes == { "sent", "failed", "thrown" }

LogRow(by, campaignId, customerId, status) ==
  [by |-> by, campaign_id |-> campaignId, customer_id |-> customerId,
   status |-> status]

\* accumulator of the delivery loop: counters, attempts per customer, the log
\* rows inserted, and whether an error left the loop
NoDeliveries ==
  [sentCount |-> 0, failedCount |-> 0, attempts |-> [id \in CustIds |-> 0],
   logs |-> {}, threw |-> FALSE]

\* mutant: the per-customer catch rethrows instead of counting
deliveryCatch_Rethrow(acc, campaignId, id) ==
  [acc EXCEPT !.attempts[id] = @ + 1, !.threw = TRUE]

\* catch (error) { failedCount++; insert a FAILED log row }
deliveryCatch(acc, campaignId, id) ==
  [acc EXCEPT !.attempts[id] = @ + 1,
              !.failedCount = @ + 1,
              !.logs = @ \cup {LogRow("executeCampaign", campaignId, id, "FAILED")}]

\* one iteration of for (const customer of customers)
DeliverOne(acc, campaignId, id, outcome) ==
  CASE outcome = "sent" ->
         [acc EXCEPT !.attempts[id] = @ + 1,
                     !.sentCount = @ + 1,
                     !.logs = @ \cup {LogRow("executeCampaign", campaignId, id, "SENT")}]
    [] outcome = "failed" ->
         [acc EXCEPT !.attempts[id] = @ + 1,
                     !.failedCount = @ + 1,
                     !.logs = @ \cup {LogRow("executeCampaign", campaignId, id, "FAILED")}]
    [] outcome = "thrown" -> deliveryCatch(acc, campaignId, id)

RECURSIVE DeliverAll(_, _, _, _)
\* the loop over the resolved customers, in the order of the result
DeliverAll(todo, acc, campaignId, outcomes) ==
  IF todo = {} \/ acc.threw THEN acc
  ELSE LET id == CHOOSE i \in todo : \A j \in todo : i <= j
       IN DeliverAll(todo \ {id}, DeliverOne(acc, campaignId, id, outcomes[id]),
                     campaignId, outcomes)

ProcessingStatuses == { "PROCESSING", "processing", "sending" }

Ended(e, error) == [exec[e] EXCEPT !.pc = "failing", !.error = error]

\* executeCampaign(campaignId, userId) up to the status check
ExecBegin(e, campaignId, userId, fault) ==
  /\ exec[e].pc = "idle"
  /\ LET campaign == getCampaignByIdForUser(campaigns, campaignId, userId, fault)
         started == [NoExec EXCEPT !.campaignId = campaignId, !.userId = userId]
     IN exec' = [exec EXCEPT ![e] =
          IF ~campaign.found
            THEN [started EXCEPT !.pc = "failing",
                                 !.error = "Campaign not found or unauthorized"]
          ELSE IF campaign.row.status \in ProcessingStatuses
            THEN [started EXCEPT !.pc = "failing",
                                 !.error = "Campaign is currently being processed"]
          ELSE [started EXCEPT !.pc = "marking",
                               !.segment_id = campaign.row.segment_id]]
  /\ UNCHANGED <<customers, resp, segVars, campaigns, cons, logs, published,
                 orderVars, clock, lookalike, receipts>>

\* await updateCampaign(campaignId, { status: "PROCESSING" })
ExecMark(e, fault) ==
  /\ exec[e].pc = "marking"
  /\ LET upd == updateCampaign(campaigns, exec[e].campaignId,
                               [status |-> "PROCESSING"], fault)
     IN /\ campaigns' = upd.camps
        /\ exec' = [exec EXCEPT ![e] =
             IF upd.ok THEN [@ EXCEPT !.pc = "running", !.wrote = "PROCESSING"]
             ELSE Ended(e, "Failed to update campaign")]
  /\ UNCHANGED <<customers, resp, segVars, cons, logs, published, orderVars, clock, lookalike, receipts>>

\* the segment read, findCustomersBySegment and the delivery loop
ExecRun(e, outcomes, fault) ==
  /\ exec[e].pc = "running"
  /\ LET sid == exec[e].segment_id
         found == IF sid \in DOMAIN segments
                    THEN findCustomersBySegment(segments[sid].rules, customers, fault)
                    ELSE Failure("Segment not found")
         loop == DeliverAll(found.rows, NoDeliveries, exec[e].campaignId, outcomes)
     IN
     IF ~found.ok
       THEN /\ exec' = [exec EXCEPT ![e] = Ended(e, found.error)]
            /\ logs' = logs
       ELSE /\ exec' = [exec EXCEPT ![e] =
                 [@ EXCEPT !.pc = IF loop.threw THEN "failing" ELSE "finishing",
                           !.error = IF loop.threw THEN "delivery error" ELSE "",
                           !.customers = found.rows,
                           !.sentCount = loop.sentCount,
                           !.failedCount = loop.failedCount,
                           !.attempts = loop.attempts]]
            /\ logs' = logs \cup loop.logs
  /\ UNCHANGED <<customers, resp, segVars, campaigns, cons, published,
                 orderVars, clock, lookalike, receipts>>

\* the final updateCampaign: COMPLETED with the counters (customers.length === 0
\* writes zero counters and leaves audience_size alone)
ExecFinish(e, fault) ==
  /\ exec[e].pc = "finishing"
  /\ LET updateData ==
           IF exec[e].customers = {}
             THEN [status |-> "COMPLETED", sent_count |-> 0, failed_count |-> 0]
             ELSE [status |-> "COMPLETED", sent_count |-> exec[e].sentCount,
                   failed_count |-> exec[e].failedCount,
                   audience_size |-> Cardinality(exec[e].customers)]
         upd == updateCampaign(campaigns, exec[e].campaignId, updateData, fault)
     IN /\ campaigns' = upd.camps
        /\ exec' = [exec EXCEPT ![e] =
             IF upd.ok THEN [@ EXCEPT !.pc = "done", !.wrote = "COMPLETED"]
             ELSE Ended(e, "Failed to update campaign")]
  /\ UNCHANGED <<customers, resp, segVars, cons, logs, published, orderVars, clock, lookalike, receipts>>

\* the outer catch: updateCampaign(campaignId, { status: "FAILED" }), rethrow
ExecFail(e, fault) ==
  /\ exec[e].pc = "failing"
  /\ LET upd == updateCampaign(campaigns, exec[e].campaignId,
                               [status |-> "FAILED"], fault)
     IN /\ campaigns' = upd.camps
        /\ exec' = [exec EXCEPT ![e] =
             [@ EXCEPT !.pc = "done",
                       !.wrote = IF upd.ok THEN "FAILED" ELSE @]]
  /\ UNCHANGED <<customers, resp, segVars, cons, logs, published, orderVars, clock, lookalike, receipts>>

----------------------------------------------------------------------------
(* campaign consumer: processCampaignCreation *)

\* the operations applyFilter's switch has a case for
ConsumerSwitch ==
  { "equals", "notEquals", "greaterThan", "lessThan", "contains", "notContains",
    "isEmpty", "isNotEmpty" }

\* filter strings the store refuses ("not.<field>...", "<field>.is.not.null")
\* or that select no row of a table without NULLs ("<field>.is.null")
ConsumerNoRows == { "notContains", "isEmpty", "isNotEmpty" }

\* the condition as the string filter compares it: <field>.<op>.<value>
Keyed(cond) == [cond EXCEPT !.operator = cond.operation]

\* getTargetCustomers(rules): applyRules/applyFilter build the query; under
\* "AND" applyFilter calls query["and"], which the query builder does not
\* have, and the TypeError ends in the function's catch: no customers.
\* Under "OR" every condition adds one or=(...) parameter.
getTargetCustomers(rules, store, fault) ==
  LET conds == ConditionsOf(rules)
      called == { i \in 1..Len(conds) : conds[i].operation \in ConsumerSwitch }
  IN
  IF fault THEN {}
  ELSE IF called = {} \/ rules.operator \notin {"AND", "OR"} THEN DOMAIN store
  ELSE IF rules.operator = "AND" THEN {}
  ELSE IF \E i \in called : \/ conds[i].operation \in ConsumerNoRows
                            \/ FilterRejected(Keyed(conds[i]))
    THEN {}
  ELSE { id \in DOMAIN store :
           \A i \in called : RowPasses(store[id], Keyed(conds[i])) }

\* the fields processCampaignCreation reads from a message: id, segmentId,
\* messageTemplate
Message(id, segmentId, hasTemplate) ==
  [id |-> id, segmentId |-> segmentId, hasTemplate |-> hasTemplate]

\* what createCampaign publishes is { campaignId, timestamp }: the fields the
\* handler reads are all undefined
PublishedMessage(campaignId) == Message(Null, Null, FALSE)

\* messages of other publishers on the channel, carrying the handler's fields
FullMessages == { Message(c, 1, TRUE) : c \in CampIds }

\* outcomes of one consumer delivery: sendMessage returns, sendMessage throws,
\* or the insert of the log row fails
ConsumerOutcomes == { "sent", "thrown", "logfail" }

\* one iteration of the consumer's loop
ConsumeOne(acc, campaignId, hasTemplate, id, outcome) ==
  IF ~hasTemplate \/ campaignId \notin DOMAIN campaigns \/ outcome = "logfail"
    THEN [acc EXCEPT !.attempts[id] = @ + 1, !.failedCount = @ + 1]
  ELSE IF outcome = "sent"
    THEN [acc EXCEPT !.attempts[id] = @ + 1, !.sentCount = @ + 1,
                     !.logs = @ \cup {LogRow("consumer", campaignId, id, "pending")}]
  ELSE [acc EXCEPT !.attempts[id] = @ + 1, !.failedCount = @ + 1,
                   !.logs = @ \cup {LogRow("consumer", campaignId, id, "pending")}]

RECURSIVE ConsumeAll(_, _, _, _, _)
ConsumeAll(todo, acc, campaignId, hasTemplate, outcomes) ==
  IF todo = {} THEN acc
  ELSE LET id == CHOOSE i \in todo : \A j \in todo : i <= j
       IN ConsumeAll(todo \ {id},
                     ConsumeOne(acc, campaignId, hasTemplate, id, outcomes[id]),
                     campaignId, hasTemplate, outcomes)

\* processCampaignCreation(data) up to the first campaign update: the segment
\* read (an error returns) and getTargetCustomers
ConsBegin(data, fault) ==
  IF fault \/ data.segmentId \notin DOMAIN segments
    THEN [NoCons EXCEPT !.pc = "returned"]
    ELSE [NoCons EXCEPT !.pc = "marking", !.id = data.id,
                        !.hasTemplate = data.hasTemplate,
                        !.customers = getTargetCustomers(
                            segments[data.segmentId].rules, customers, FALSE)]

\* the subscriber callback on a message createCampaign published
ReceivePublished(campaignId, fault) ==
  /\ cons.pc = "idle"
  /\ campaignId \in published
  /\ published' = published \ {campaignId}
  /\ cons' = ConsBegin(PublishedMessage(campaignId), fault)
  /\ UNCHANGED <<customers, resp, segVars, campaigns, exec, logs, orderVars, clock, lookalike, receipts>>

\* the subscriber callback on a message carrying id, segmentId, messageTemplate
ReceiveFull(data, fault) ==
  /\ cons.pc = "idle"
  /\ cons' = ConsBegin(data, fault)
  /\ UNCHANGED <<customers, resp, segVars, campaigns, exec, logs, published,
                 orderVars, clock, lookalike, receipts>>

\* .update({ audience_size, status: "sending" }).eq("id", data.id)
ConsMark(fault) ==
  /\ cons.pc = "marking"
  /\ IF fault
       THEN /\ cons' = [cons EXCEPT !.pc = "returned"]
            /\ campaigns' = campaigns
       ELSE /\ cons' = [cons EXCEPT !.pc = "running"]
            /\ campaigns' = IF cons.id \in DOMAIN campaigns
                 THEN [campaigns EXCEPT ![cons.id] = Patched(@,
                         [audience_size |-> Cardinality(cons.customers),
                          status |-> "sending"])]
                 ELSE campaigns
  /\ UNCHANGED <<customers, resp, segVars, exec, logs, published, orderVars, clock, lookalike, receipts>>

\* the delivery loop of the consumer
ConsRun(outcomes) ==
  /\ cons.pc = "running"
  /\ LET loop == ConsumeAll(cons.customers, NoDeliveries, cons.id,
                            cons.hasTemplate, outcomes)
     IN /\ cons' = [cons EXCEPT !.pc = "finishing",
                                !.sentCount = loop.sentCount,
                                !.failedCount = loop.failedCount,
                                !.attempts = loop.attempts]
        /\ logs' = logs \cup loop.logs
  /\ UNCHANGED <<customers, resp, segVars, campaigns, exec, published,
                 orderVars, clock, lookalike, receipts>>

\* .update({ sent_count, failed_count, status: "completed" }).eq("id", data.id);
\* the result of the call is not looked at
ConsFinish(fault) ==
  /\ cons.pc = "finishing"
  /\ cons' = [cons EXCEPT !.pc = "done"]
  /\ campaigns' = IF ~fault /\ cons.id \in DOMAIN campaigns
       THEN [campaigns EXCEPT ![cons.id] = Patched(@,
               [sent_count |-> cons.sentCount, failed_count |-> cons.failedCount,
                status |-> "completed"])]
       ELSE campaigns
  /\ UNCHANGED <<customers, resp, segVars, exec, logs, published, orderVars, clock, lookalike, receipts>>

----------------------------------------------------------------------------
(* Spec: campaigns over a store with existing segments *)

\* the segment the campaigns target, as createSegment stored it
StoredSegment(store) ==
  LET rules == Group("AND", <<LNum("total_spend", "greaterThan", 10000)>>) IN
  [SegmentRow(rules, "u1") EXCEPT
     !.audience_size = countCustomersBySegment(rules, store, FALSE).count,
     !.last_calculated_at = 1]

\* the stores the campaigns run against: every customer above the segment's
\* threshold, none, or only the first
StoreInputs ==
  { [id \in CustIds |-> Customer(15000, 2, {Vip}, <<"a", "@", "x">>)],
    [id \in CustIds |-> Customer(500, 0, {}, <<"b", "@", "y">>)],
    [id \in CustIds |-> IF id = 1 THEN Customer(15000, 2, {Vip}, <<"a", "@", "x">>)
                        ELSE Customer(500, 0, {}, <<"b", "@", "y">>)] }

Init ==
  /\ lookalike = NoLookalike
  /\ receipts = [n \in ReceiptIds |-> NoReceipt]
  /\ customers \in StoreInputs
  /\ segments = [s \in {1} |-> StoredSegment(customers)]
  /\ resp = NoResp
  /\ segResp = NoSegResp
  /\ refresh = [r \in RefIds |-> NoRefresh]
  /\ campaigns = << >>
  /\ exec = [e \in ExecIds |-> NoExec]
  /\ cons = NoCons
  /\ logs = {}
  /\ published = {}
  /\ orders = {}
  /\ queue = {}
  /\ handlers = << >>
  /\ clock = 1

\* POST /campaigns and PUT /campaigns/:id
CampaignRequests ==
  \/ \E s \in DOMAIN segments \cup {Null}, u \in Users, f1, f2, f3 \in BOOLEAN :
       createCampaign(s, u, f1, f2, f3)
  \/ \E id \in DOMAIN campaigns :
       \E d \in UpdateInputs, u \in Users, f1, f2 \in BOOLEAN :
         updateCampaignForUser(id, d.segmentId, d.status, u, f1, f2)

\* the steps of the executeCampaign invocations, numbered in order of arrival
ExecuteSteps ==
  \/ \E e \in ExecIds :
       /\ exec[e].pc = "idle"
       /\ IF e = 1 THEN TRUE ELSE exec[e - 1].pc # "idle"
       /\ \E c \in CampIds, u \in Users, f \in BOOLEAN : ExecBegin(e, c, u, f)
  \/ \E e \in ExecIds, f \in BOOLEAN : ExecMark(e, f)
  \/ \E e \in ExecIds :
       /\ exec[e].pc = "running"
       /\ \E outcomes \in [CustIds -> DeliveryOutcomes], f \in BOOLEAN :
            ExecRun(e, outcomes, f)
  \/ \E e \in ExecIds, f \in BOOLEAN : ExecFinish(e, f)
  \/ \E e \in ExecIds, f \in BOOLEAN : ExecFail(e, f)

\* the steps of the campaign-created consumer
ConsumerSteps ==
  \/ \E c \in published, f \in BOOLEAN : ReceivePublished(c, f)
  \/ /\ cons.pc = "idle"
     /\ \E data \in FullMessages, f \in BOOLEAN : ReceiveFull(data, f)
  \/ \E f \in BOOLEAN : ConsMark(f)
  \/ /\ cons.pc = "running"
     /\ \E outcomes \in [CustIds -> ConsumerOutcomes] : ConsRun(outcomes)
  \/ \E f \in BOOLEAN : ConsFinish(f)

Next == CampaignRequests \/ ExecuteSteps \/ ConsumerSteps

Spec == Init /\ [][Next]_vars

\* campaign execution alone: campaigns are created and executed
NextExecute ==
  \/ \E s \in DOMAIN segments \cup {Null}, u \in Users, f1, f2, f3 \in BOOLEAN :
       createCampaign(s, u, f1, f2, f3)
  \/ ExecuteSteps

SpecExecute == Init /\ [][NextExecute]_vars

----------------------------------------------------------------------------
(* Claims on campaign execution *)

C8_StatusInDeclaredSet ==
  \A id \in DOMAIN campaigns :
    campaigns[id].status \in {"draft", "PENDING", "PROCESSING", "COMPLETED", "FAILED"}

----------------------------------------------------------------------------
(* order consumer: processOrderCreation, updateCustomerMetrics *)

\* order amounts the events carry
Amounts == { 100, 250 }

\* a message on the order:created channel; wrapped: the order sits under the
\* key `data`, as order.service's createOrder publishes it
OrderEvent(n, wrapped, customerId, amount) ==
  [n |-> n, wrapped |-> wrapped, customerId |-> customerId, amount |-> amount]

EventsPublished == Cardinality(queue) + Cardinality(DOMAIN handlers)

\* order.service createOrder: publishes { data: orderForProcessing, timestamp }
createOrder(customerId, amount) ==
  /\ EventsPublished < MaxOrders
  /\ queue' = queue \cup {OrderEvent(EventsPublished + 1, TRUE, customerId, amount)}
  /\ UNCHANGED <<customers, resp, segVars, campVars, orders, handlers, clock, lookalike, receipts>>

\* a publisher sending the order itself: { customerId, amount, ... }
PublishOrder(customerId, amount) ==
  /\ EventsPublished < MaxOrders
  /\ queue' = queue \cup {OrderEvent(EventsPublished + 1, FALSE, customerId, amount)}
  /\ UNCHANGED <<customers, resp, segVars, campVars, orders, handlers, clock, lookalike, receipts>>

\* locals of a processOrderCreation invocation; data.customerId and
\* data.amount are undefined (Null) when the order sits under `data`
Handler(m) ==
  [pc |-> "insert",
   customerId |-> IF m.wrapped THEN Null ELSE m.customerId,
   amount |-> IF m.wrapped THEN Null ELSE m.amount,
   total_spend |-> 0, total_visits |-> 0, failed |-> FALSE]

\* startOrderConsumer's callback: JSON.parse(message), processOrderCreation(data)
startOrderConsumer(m) ==
  /\ m \in queue
  /\ queue' = queue \ {m}
  /\ handlers' = [n \in DOMAIN handlers \cup {m.n} |->
                    IF n = m.n THEN Handler(m) ELSE handlers[n]]
  /\ UNCHANGED <<customers, resp, segVars, campVars, orders, clock, lookalike, receipts>>

\* processOrderCreation: the insert into orders; customer_id and amount are
\* NOT NULL and customer_id references customers; an error returns
processOrderCreation(n, fault) ==
  /\ n \in DOMAIN handlers
  /\ handlers[n].pc = "insert"
  /\ IF fault \/ handlers[n].customerId \notin DOMAIN customers
          \/ handlers[n].amount = Null
       THEN /\ handlers' = [handlers EXCEPT ![n].pc = "done", ![n].failed = TRUE]
            /\ orders' = orders
       ELSE /\ handlers' = [handlers EXCEPT ![n].pc = "fetch"]
            /\ orders' = orders \cup {[n |-> n, customer_id |-> handlers[n].customerId,
                                       amount |-> handlers[n].amount]}
  /\ UNCHANGED <<customers, resp, segVars, campVars, queue, clock, lookalike, receipts>>

\* updateCustomerMetrics: select total_spend, total_visits of the customer
fetchCustomerMetrics(n, fault) ==
  /\ n \in DOMAIN handlers
  /\ handlers[n].pc = "fetch"
  /\ handlers' = [handlers EXCEPT ![n] =
       IF fault THEN [@ EXCEPT !.pc = "done", !.failed = TRUE]
       ELSE [@ EXCEPT !.pc = "update",
                      !.total_spend = customers[handlers[n].customerId].total_spend,
                      !.total_visits = customers[handlers[n].customerId].total_visits]]
  /\ UNCHANGED <<customers, resp, segVars, campVars, orders, queue, clock, lookalike, receipts>>

\* updateCustomerMetrics: update with the values computed from the row read
updateCustomerMetrics(n, fault) ==
  /\ n \in DOMAIN handlers
  /\ handlers[n].pc = "update"
  /\ IF fault
       THEN /\ handlers' = [handlers EXCEPT ![n].pc = "done", ![n].failed = TRUE]
            /\ customers' = customers
       ELSE /\ handlers' = [handlers EXCEPT ![n].pc = "done"]
            /\ customers' = [customers EXCEPT ![handlers[n].customerId] =
                 [@ EXCEPT !.total_spend = handlers[n].total_spend + handlers[n].amount,
                           !.total_visits = handlers[n].total_visits + 1,
                           !.last_visit_date = clock]]
  /\ UNCHANGED <<resp, segVars, campVars, orders, queue, clock, lookalike, receipts>>

\* the customers before any order event
OrderStore == [id \in CustIds |-> Customer(500, 0, {}, <<"b", "@", "y">>)]

InitOrders ==
  /\ customers = OrderStore
  /\ InitRest

NextOrders ==
  \/ \E c \in CustIds, a \in Amounts : createOrder(c, a)
  \/ \E c \in CustIds, a \in Amounts : PublishOrder(c, a)
  \/ \E m \in queue : startOrderConsumer(m)
  \/ \E n \in DOMAIN handlers, f \in BOOLEAN : processOrderCreation(n, f)
  \/ \E n \in DOMAIN handlers, f \in BOOLEAN : fetchCustomerMetrics(n, f)
  \/ \E n \in DOMAIN handlers, f \in BOOLEAN : updateCustomerMetrics(n, f)

SpecOrders == InitOrders /\ [][NextOrders]_vars

----------------------------------------------------------------------------
(* Claims on the order consumer *)

RECURSIVE SumAmounts(_)
SumAmounts(os) ==
  IF os = {} THEN 0
  ELSE LET o == CHOOSE x \in os : TRUE IN o.amount + SumAmounts(os \ {o})

OrdersOf(c) == { o \in orders : o.customer_id = c }

\* every event picked up and handled to the end, no store call of the
\* metrics update having failed
FullyProcessed ==
  /\ queue = {}
  /\ \A n \in DOMAIN handlers :
       /\ handlers[n].pc = "done"
       /\ handlers[n].failed => \A o \in orders : o.n # n

----------------------------------------------------------------------------
(* segment.service: getSegmentById, refreshAudienceSize *)

\* .select("*").eq("id", id).eq("created_by", userId).single(); an error (no
\* such row, or a failing store call) gives null
getSegmentById(segs, id, userId, fault) ==
  IF fault \/ id \notin DOMAIN segs \/ segs[id].created_by # userId
    THEN [found |-> FALSE, row |-> NoRow]
    ELSE [found |-> TRUE, row |-> segs[id]]

\* mutant: the refresh stores a value other than the count it computed
refreshUpdateData_OffByOne(audienceSize) ==
  [audience_size |-> audienceSize + 1]

\* the updateData refreshAudienceSize hands to updateSegment
refreshUpdateData(audienceSize) ==
  [audience_size |-> audienceSize]

\* what refreshAudienceSize gives its caller: the count it computed (and, for
\* the record, the rules it counted and the time of the count)
RefreshResponse(r, ok) ==
  SegResponse("refreshAudienceSize", ok, refresh[r].segmentId,
              [SegmentRow(refresh[r].rules, refresh[r].userId) EXCEPT
                 !.audience_size = refresh[r].audienceSize,
                 !.last_calculated_at = refresh[r].calculatedAt],
              refresh[r].error # "")

\* refreshAudienceSize(segmentId, userId) up to the check of the segment read
RefreshBegin(r, segmentId, userId, fault) ==
  /\ segResp.op = "none"
  /\ refresh[r].pc = "idle"
  /\ LET segment == getSegmentById(segments, segmentId, userId, fault)
         started == [NoRefresh EXCEPT !.segmentId = segmentId, !.userId = userId]
     IN IF ~segment.found
          THEN /\ refresh' = [refresh EXCEPT ![r] =
                    [started EXCEPT !.pc = "done", !.error = "Segment not found"]]
               /\ segResp' = SegResponse("refreshAudienceSize", FALSE, segmentId,
                                         NoRow, FALSE)
          ELSE /\ refresh' = [refresh EXCEPT ![r] =
                    [started EXCEPT !.pc = "count", !.rules = segment.row.rules]]
               /\ segResp' = segResp
  /\ UNCHANGED <<customers, resp, segments, campVars, orderVars, clock, lookalike, receipts>>

\* await customerService.countCustomersBySegment(segment.rules)
RefreshCount(r, fault) ==
  /\ segResp.op = "none"
  /\ refresh[r].pc = "count"
  /\ LET counted == countCustomersBySegment(refresh[r].rules, customers, fault)
     IN IF counted.ok
          THEN /\ refresh' = [refresh EXCEPT ![r].pc = "update",
                                             ![r].audienceSize = counted.count,
                                             ![r].calculatedAt = clock]
               /\ segResp' = segResp
          ELSE /\ refresh' = [refresh EXCEPT ![r].pc = "done",
                                             ![r].error = counted.error]
               /\ segResp' = SegResponse("refreshAudienceSize", FALSE,
                                         refresh[r].segmentId, NoRow, TRUE)
  /\ UNCHANGED <<customers, resp, segments, campVars, orderVars, clock, lookalike, receipts>>

\* await updateSegment(segmentId, { audience_size }, userId); return audienceSize:
\* what updateSegment returns is not looked at
RefreshWrite(r, fault) ==
  /\ segResp.op = "none"
  /\ refresh[r].pc = "update"
  /\ segments' = updateSegment(segments, refresh[r].segmentId,
                               refreshUpdateData(refresh[r].audienceSize),
                               refresh[r].userId, fault).segs
  /\ refresh' = [refresh EXCEPT ![r].pc = "done"]
  /\ segResp' = RefreshResponse(r, TRUE)
  /\ UNCHANGED <<customers, resp, campVars, orderVars, clock, lookalike, receipts>>

\* rules a client edits a stored segment to
RuleEdits ==
  { EmptyRules,
    Group("AND", <<LNum("total_spend", "greaterThan", 10000)>>) }

\* the refreshAudienceSize invocations, numbered in order of arrival
RefreshSteps ==
  \/ \E r \in RefIds :
       /\ refresh[r].pc = "idle"
       /\ IF r = 1 THEN TRUE ELSE refresh[r - 1].pc # "idle"
       /\ \E id \in SegIds, u \in Users, f \in BOOLEAN : RefreshBegin(r, id, u, f)
  \/ \E r \in RefIds, f \in BOOLEAN : RefreshCount(r, f)
  \/ \E r \in RefIds, f \in BOOLEAN : RefreshWrite(r, f)

NextRefresh ==
  \/ RefreshSteps
  \/ /\ segResp.op = "none"
     /\ \E rules \in RuleEdits, u \in Users, f \in BOOLEAN :
          CallUpdateSegment(1, rules, u, f)
  \/ ReturnFromSegmentService
  \/ Tick

\* refreshes and rule edits of a stored segment
SpecRefresh == Init /\ [][NextRefresh]_vars

----------------------------------------------------------------------------
(* Claims on refreshAudienceSize *)

\* C11: whenever refreshAudienceSize returns n, the persisted segment's
\* audience_size equals n.
C11_RefreshReturnsPersisted ==
  (segResp.op = "refreshAudienceSize" /\ segResp.ok)
    => segments[segResp.id].audience_size = segResp.audience_size

\* C12: after refreshAudienceSize succeeds (its count is the persisted
\* audience_size), the segment's last_calculated_at is the time of that
\* refresh: not earlier than the time the count was taken.
C12_RefreshStampsCalculation ==
  ( /\ segResp.op = "refreshAudienceSize"
    /\ segResp.ok
    /\ segments[segResp.id].audience_size = segResp.audience_size )
    => segments[segResp.id].last_calculated_at >= segResp.last_calculated_at

\* the step in which invocation r stores its count and returns
RefreshWrote(r) == refresh[r].pc = "update" /\ refresh'[r].pc = "done"

\* C14: concurrent refreshAudienceSize calls on a segment do not fail because
\* of each other, and every change of the persisted audience_size is the
\* write of one call storing the count that call computed, so the value left
\* when all have finished is the count of the call whose write came last.
C14_RefreshLastWriterWins ==
  [][ /\ \A r \in RefIds :
           RefreshWrote(r) => (refresh'[r].error = "" /\ segResp'.ok)
      /\ \A id \in DOMAIN segments :
           segments'[id].audience_size # segments[id].audience_size
             => \E r \in RefIds :
                  /\ RefreshWrote(r)
                  /\ refresh[r].segmentId = id
                  /\ segments'[id].audience_size = refresh[r].audienceSize
    ]_vars

\* two refreshes of the same segment have finished, they computed different
\* counts, and the persisted audience_size is the count of the second
C14_Witness ==
  /\ \A r \in {1, 2} : /\ refresh[r].pc = "done"
                       /\ refresh[r].error = ""
                       /\ refresh[r].segmentId = 1
  /\ refresh[1].audienceSize # refresh[2].audienceSize
  /\ refresh[1].calculatedAt = refresh[2].calculatedAt
  /\ segments[1].audience_size = refresh[2].audienceSize
  /\ segments[1].audience_size # StoredSegment(customers).audience_size

----------------------------------------------------------------------------
(* SpecAudience: the segment, campaign, customer and order services together *)

\* bodies sent to PUT /segments/:id: keys lists the keys the body has; besides
\* the rules it may have an audience_size key, which the schema does not have
SegmentBodies ==
  { [keys |-> k, rules |-> r, audience_size |-> 99] :
      k \in { {"rules"}, {"rules", "audience_size"} }, r \in RuleEdits }

\* mutant: the middleware hands the body on as it was sent
validateSegmentCreation_KeepUnknown(body) ==
  IF "audience_size" \in body.keys
    THEN [rules |-> body.rules, audience_size |-> body.audience_size]
    ELSE [rules |-> body.rules]

\* validate(Joi.object(segmentSchema)) with stripUnknown: req.body is replaced
\* by the value that keeps only the schema's keys
validateSegmentCreation(body) == [rules |-> body.rules]

\* PUT /segments/:id: validateSegmentCreation, then
\* updateSegment(req.params.id, req.body, req.user.id)
PutSegment(id, body, userId, fault) ==
  /\ segResp.op = "none"
  /\ id \in DOMAIN segments
  /\ LET updated == updateSegment(segments, id, validateSegmentCreation(body),
                                  userId, fault) IN
     /\ segments' = updated.segs
     /\ segResp' = SegResponse("updateSegment", updated.ok, id,
                      IF updated.ok THEN updated.segs[id] ELSE NoRow, FALSE)
  /\ UNCHANGED <<customers, resp, refresh, campVars, orderVars, clock, lookalike, receipts>>

\* getSegments(userId): the user's rows, each with a customer_count computed
\* from its rules (the stored audience_size when the count fails); the rows
\* are read, none is written
getSegments(userId, fault, countFault) ==
  /\ segResp.op = "none"
  /\ LET page == { id \in DOMAIN segments : segments[id].created_by = userId }
         first == IF page = {} THEN 0 ELSE CHOOSE i \in page : \A j \in page : i <= j
     IN segResp' = IF fault THEN SegResponse("getSegments", FALSE, 0, NoRow, FALSE)
                   ELSE IF page = {} THEN SegResponse("getSegments", TRUE, 0, NoRow, FALSE)
                   ELSE SegResponse("getSegments", TRUE, first, segments[first], countFault)
  /\ UNCHANGED <<customers, resp, segments, refresh, campVars, orderVars, clock, lookalike, receipts>>

\* POST /segments/:id/preview: getSegmentById (404 without a row), then
\* previewSegmentAudience(segment.rules)
PreviewSegment(id, userId, readFault, fault) ==
  /\ resp.op = "none"
  /\ LET segment == getSegmentById(segments, id, userId, readFault) IN
     resp' = IF ~segment.found
               THEN Response("preview", EmptyRules, Failure("Segment not found"))
               ELSE Response("preview", segment.row.rules,
                      previewSegmentAudience(segment.row.rules, customers, fault))
  /\ UNCHANGED <<customers, segVars, campVars, orderVars, clock, lookalike, receipts>>

\* customer.service updateCustomer(id, customerData): the row is replaced by
\* the submitted values; a store error is thrown
updateCustomer(id, customerData, fault) ==
  /\ id \in DOMAIN customers
  /\ customers' = IF fault THEN customers
                  ELSE [customers EXCEPT ![id] = customerData]
  /\ UNCHANGED <<resp, segVars, campVars, orderVars, clock, lookalike, receipts>>

\* no request is being served: the requests of this specification are
\* admitted one after the other
Quiet ==
  /\ resp.op = "none"
  /\ segResp.op = "none"
  /\ \A r \in RefIds : refresh[r].pc \in {"idle", "done"}
  /\ \A e \in ExecIds : exec[e].pc \in {"idle", "done"}
  /\ queue = {}
  /\ \A n \in DOMAIN handlers : handlers[n].pc = "done"

\* the requests: the owner creates the segment and the campaign and starts
\* the execution, either user edits or refreshes, customer 1 places an order
AudienceRequests ==
  \/ \E rules \in RuleEdits, f1, f2, f3 \in BOOLEAN :
       createSegment(rules, "u1", f1, f2, f3)
  \/ \E id \in DOMAIN segments, body \in SegmentBodies, u \in Users, f \in BOOLEAN :
       PutSegment(id, body, u, f)
  \/ \E u \in Users, f1, f2 \in BOOLEAN : getSegments(u, f1, f2)
  \/ \E id \in SegIds, u \in Users, f1, f2 \in BOOLEAN : PreviewSegment(id, u, f1, f2)
  \/ /\ refresh[1].pc = "idle"
     /\ \E id \in SegIds, f \in BOOLEAN : RefreshBegin(1, id, "u1", f)
  \/ \E s \in DOMAIN segments, f2, f3 \in BOOLEAN :
       createCampaign(s, "u1", FALSE, f2, f3)
  \/ \E id \in DOMAIN campaigns, d \in UpdateInputs, f \in BOOLEAN :
       updateCampaignForUser(id, d.segmentId, d.status, "u1", FALSE, f)
  \/ /\ exec[1].pc = "idle"
     /\ \E c \in DOMAIN campaigns : ExecBegin(1, c, "u1", FALSE)
  \/ \E id \in CustIds, p \in ServicePool, f \in BOOLEAN : updateCustomer(id, p, f)
  \/ /\ EventsPublished = 0
     /\ PublishOrder(1, 250)

\* the later steps of the requests admitted; the store can fail the counts,
\* the writes of a refresh and the resolution of an execution
AudienceSteps ==
  \/ \E r \in RefIds, f \in BOOLEAN : RefreshCount(r, f)
  \/ \E r \in RefIds, f \in BOOLEAN : RefreshWrite(r, f)
  \/ \E e \in ExecIds : ExecMark(e, FALSE)
  \/ \E e \in ExecIds :
       /\ exec[e].pc = "running"
       /\ \E f \in BOOLEAN : ExecRun(e, [c \in CustIds |-> "sent"], f)
  \/ \E e \in ExecIds : ExecFinish(e, FALSE)
  \/ \E e \in ExecIds : ExecFail(e, FALSE)
  \/ \E m \in queue : startOrderConsumer(m)
  \/ \E n \in DOMAIN handlers : processOrderCreation(n, FALSE)
  \/ \E n \in DOMAIN handlers : fetchCustomerMetrics(n, FALSE)
  \/ \E n \in DOMAIN handlers : updateCustomerMetrics(n, FALSE)
  \/ ReturnFromSegmentService
  \/ ReturnToCaller

InitAudience ==
  /\ customers \in StoreInputs
  /\ InitRest

NextAudience == (Quiet /\ AudienceRequests) \/ AudienceSteps

SpecAudience == InitAudience /\ [][NextAudience]_vars

\* C13: the audience_size of a persisted segment changes only in the step in
\* which a refreshAudienceSize call stores its count (createSegment sets it
\* on the row it inserts); updating the segment, listing, previewing, campaign
\* operations, customer updates and order processing leave it as it is.
C13_AudienceSizeFrame ==
  [][ \A id \in DOMAIN segments :
        (id \in DOMAIN segments'
           /\ segments'[id].audience_size # segments[id].audience_size)
          => \E r \in RefIds : RefreshWrote(r) /\ refresh[r].segmentId = id
    ]_vars

\* the segment's rules were updated through the route and its audience_size
\* is no longer the count of its rules, while a campaign targets it
C13_Witness ==
  /\ segResp.op = "updateSegment"
  /\ segResp.ok
  /\ segments[segResp.id].audience_size
       # countCustomersBySegment(segments[segResp.id].rules, customers, FALSE).count
  /\ \E c \in DOMAIN campaigns : campaigns[c].segment_id = segResp.id

\* the step of an updateCampaignForUser call that names a segment
Retargeted(c) ==
  \E d \in UpdateInputs, u \in Users, f1, f2 \in BOOLEAN :
    /\ d.segmentId # Null
    /\ updateCampaignForUser(c, d.segmentId, d.status, u, f1, f2)

\* the step in which an execution of campaign c stores its result
Executed(c) ==
  \E e \in ExecIds :
    /\ exec[e].campaignId = c
    /\ exec[e].pc = "finishing"
    /\ exec'[e].pc = "done"

----------------------------------------------------------------------------
(* SpecReads: resolver calls over a store with a segment, between updates *)

\* campaign.service previewCampaignAudience(rules): the count; the catch
\* logs the error of a failed count and returns { audienceSize: 0, count: 0 }
previewCampaignAudience(rules, store, fault) ==
  LET counted == countCustomersBySegment(rules, store, fault) IN
  IF counted.ok THEN counted ELSE [counted EXCEPT !.ok = TRUE, !.count = 0]

CallPreviewCampaignAudience(rules, fault) ==
  /\ resp.op = "none"
  /\ resp' = Response("previewCampaignAudience", rules,
                      previewCampaignAudience(rules, customers, fault))
  /\ customers' = customersAfterSelect(customers)
  /\ UNCHANGED <<segVars, campVars, orderVars, clock, lookalike, receipts>>

\* resolver calls with any rule, while customers are updated
NextReads ==
  \/ NextResolve
  \/ /\ resp.op = "none"
     /\ \E rules \in RuleEdits, fault \in BOOLEAN :
          CallPreviewCampaignAudience(rules, fault)
  \/ \E id \in CustIds, p \in ServicePool, f \in BOOLEAN : updateCustomer(id, p, f)

SpecReads == Init /\ [][NextReads]_vars

\* C15: a call of findCustomersBySegment, countCustomersBySegment or
\* previewSegmentAudience, with any rule and between any other calls and
\* writes, leaves every customer row and every segment row as it was.
C15_ResolverReadsOnly ==
  [][ (resp.op = "none" /\ resp'.op # "none")
        => (customers' = customers /\ segments' = segments) ]_vars

\* a preview answered with one customer after the other customer, counted
\* in the stored segment's audience, was updated out of it
C15_Witness ==
  /\ resp.op = "preview"
  /\ resp.ok
  /\ resp.rows = {1}
  /\ customers[2].total_spend = 500
  /\ DOMAIN segments # {}
  /\ segments[1].audience_size = 2

\* C16: a failure of the customer store during resolution, counting or
\* preview reaches the caller as an error: a call that met a store error
\* (resp.error) does not return a result (resp.ok), so a failure is never
\* reported as an empty audience or a count of 0.
C16_StoreFailureReachesCaller ==
  (resp.op # "none" /\ resp.error # "") => ~resp.ok

----------------------------------------------------------------------------
(* Claims on the algebra of the resolver *)

\* C18: for a group with operator OR, appending a condition never removes a
\* customer: the result of findCustomersBySegment on (OR, C) is a subset of
\* its result on (OR, C with one more condition), on the same store.
C18_OrAppendMonotone ==
  (resp.op = "find" /\ resp.ok /\ resp.rules.operator = "OR"
     /\ resp.rules.hasConditions)
    => \A c \in ConditionPool :
         LET more == findCustomersBySegment(
                       Group("OR", Append(resp.rules.conditions, c)),
                       customers, FALSE)
         IN more.ok => resp.rows \subseteq more.rows

----------------------------------------------------------------------------
(* SpecRanges: findCustomersBySegment on single range conditions *)

RangeBounds == { 500, 10000, 15000 }

\* between / notBetween on total_spend with bounds a <= b, in both shapes
RangeConds ==
  { c \in { PPair("total_spend", op, a, b) :
              op \in {"between", "notBetween"}, a \in RangeBounds, b \in RangeBounds }
          \cup
          { LPair("total_spend", op, a, b) :
              op \in {"between", "notBetween"}, a \in RangeBounds, b \in RangeBounds } :
      c.num <= c.hi }

RangeRules == { Group("AND", <<c>>) : c \in RangeConds }

NextRanges ==
  \/ /\ resp.op = "none"
     /\ \E rules \in RangeRules, fault \in BOOLEAN :
          CallFindCustomersBySegment(rules, fault)
  \/ ReturnToCaller

SpecRanges == InitResolve /\ [][NextRanges]_vars

\* the resolver's result on greaterThanOrEqual lo AND lessThanOrEqual hi
InclusiveRange(field, lo, hi) ==
  findCustomersBySegment(
    Group("AND", <<LNum(field, "greaterThanOrEqual", lo),
                   LNum(field, "lessThanOrEqual", hi)>>),
    customers, FALSE).rows

\* C19: a single `between [a, b]` condition on a numeric field, a <= b,
\* resolves to the customers the AND of greaterThanOrEqual a and
\* lessThanOrEqual b resolves to, and `notBetween [a, b]` to exactly the
\* other customers of the store.
C19_BetweenIsInclusiveRange ==
  (resp.op = "find" /\ resp.ok /\ Len(resp.rules.conditions) = 1)
    => LET c == resp.rules.conditions[1]
           range == InclusiveRange(c.field, c.num, c.hi)
       IN /\ OpName(c) = "between" => resp.rows = range
          /\ OpName(c) = "notBetween" => resp.rows = DOMAIN customers \ range

----------------------------------------------------------------------------
(* ai.service: generateLookalikeAudience *)

\* the fallback of ai.service.clean's generateLookalikeAudience: the rules
\* and the confidence its catch block returns
FallbackRules ==
  Group("OR", <<PNum("total_spend", "greaterThan", 2000),
                PNum("total_visits", "greaterThan", 2)>>)

FallbackConfidence == 30

\* a condition whose value is NaN (0 / 0)
NaNCond(field) == Cond(field, Undefined, "greaterThan", "NaN", 0, 0, NoText)

RECURSIVE SumField(_, _, _)
\* customers.reduce((sum, c) => sum + (c[field] || 0), 0)
SumField(ids, store, field) ==
  IF ids = {} THEN 0
  ELSE LET id == CHOOSE i \in ids : TRUE
       IN NumField(store[id], field) + SumField(ids \ {id}, store, field)

\* ai.service generateLookalikeAudience(campaignId), the module the routes
\* load: the SENT log rows of the campaign, the profiles of their customers,
\* and a rule at 80% of the averages (whole units here); a failing store call
\* is rethrown as "Failed to generate lookalike audience", and with no
\* delivered customer the averages are 0 / 0
generateLookalikeAudience(campaignId, logRows, store, deliveryFault, customerFault) ==
  LET successfulDeliveries ==
        { l \in logRows : l.campaign_id = campaignId /\ l.status = "SENT" }
      customerIds == { l.customer_id : l \in successfulDeliveries }
      found == customerIds \cap DOMAIN store
      n == Cardinality(found)
  IN
  IF deliveryFault \/ customerFault
    THEN [op |-> "generateLookalikeAudience", ok |-> FALSE, empty |-> FALSE,
          failed |-> TRUE, rules |-> EmptyRules, confidence |-> Null]
  ELSE IF n = 0
    THEN [op |-> "generateLookalikeAudience", ok |-> TRUE, empty |-> TRUE,
          failed |-> FALSE,
          rules |-> Group("AND", <<NaNCond("total_spend"), NaNCond("total_visits")>>),
          confidence |-> Null]
  ELSE [op |-> "generateLookalikeAudience", ok |-> TRUE, empty |-> FALSE,
        failed |-> FALSE,
        rules |-> Group("AND",
          <<PNum("total_spend", "greaterThan",
                 (SumField(found, store, "total_spend") * 8) \div (n * 10)),
            PNum("total_visits", "greaterThan",
                 (SumField(found, store, "total_visits") * 8) \div (n * 10))>>),
        confidence |-> Null]

\* GET /lookalike/:campaignId
CallGenerateLookalikeAudience(campaignId, deliveryFault, customerFault) ==
  /\ lookalike.op = "none"
  /\ lookalike' = generateLookalikeAudience(campaignId, logs, customers,
                                            deliveryFault, customerFault)
  /\ UNCHANGED <<customers, resp, segVars, campVars, orderVars, clock, receipts>>

\* the route answers: the result as JSON, or the error handler's response
ReturnLookalike ==
  /\ lookalike.op # "none"
  /\ lookalike' = NoLookalike
  /\ UNCHANGED <<customers, resp, segVars, campVars, orderVars, clock, receipts>>

\* campaigns are created and executed, and lookalike audiences requested
NextLookalike ==
  \/ NextExecute
  \/ /\ lookalike.op = "none"
     /\ \E c \in CampIds, f1, f2 \in BOOLEAN : CallGenerateLookalikeAudience(c, f1, f2)
  \/ ReturnLookalike

SpecLookalike == Init /\ [][NextLookalike]_vars

\* C20: generateLookalikeAudience never raises, and when it found no
\* reference customers or a store call failed it returns the fixed rule
\* total_spend greaterThan 2000 OR total_visits greaterThan 2 with
\* confidence 30.
C20_LookalikeFallback ==
  lookalike.op # "none"
    => /\ lookalike.ok
       /\ (lookalike.empty \/ lookalike.failed)
            => /\ lookalike.rules = FallbackRules
               /\ lookalike.confidence = FallbackConfidence

----------------------------------------------------------------------------
(* ai.service.clean: LookalikeAnalyzer *)

\* the reference customers the analyzer is given: four kinds of customer
AnalyzerPool ==
  << [total_spend |-> 0, total_visits |-> 0, tags |-> {}],
     [total_spend |-> 500, total_visits |-> 1, tags |-> {Vip}],
     [total_spend |-> 10000, total_visits |-> 2, tags |-> {}],
     [total_spend |-> 15000, total_visits |-> 5, tags |-> {New}] >>

DomainNames == <<"a", "b", "c", "d", "e", "f", "g", "h", "i", "j", "k", "l">>

\* a reference population of n customers: a of the first kind, then b - a of
\* the second, c - b of the third and the rest of the fourth; their e-mail
\* addresses share one domain or have a domain each
Population(n, a, b, c, shared) ==
  [i \in 1..n |->
     LET kind == AnalyzerPool[IF i <= a THEN 1 ELSE IF i <= b THEN 2
                              ELSE IF i <= c THEN 3 ELSE 4]
     IN Customer(kind.total_spend, kind.total_visits, kind.tags,
                 <<"u", "@", IF shared THEN "x" ELSE DomainNames[i]>>)]

Populations ==
  { Population(n, a, b, c, shared) :
      n \in 1..MaxPopulation, a \in 0..MaxPopulation, b \in 0..MaxPopulation,
      c \in 0..MaxPopulation, shared \in BOOLEAN }

RECURSIVE Inserted(_, _)
Inserted(sorted, v) ==
  IF sorted = << >> THEN <<v>>
  ELSE IF v < Head(sorted) THEN <<v>> \o sorted
  ELSE <<Head(sorted)>> \o Inserted(Tail(sorted), v)

RECURSIVE SortedAscending(_)
\* arr.sort((a, b) => a - b)
SortedAscending(arr) ==
  IF arr = << >> THEN << >>
  ELSE Inserted(SortedAscending(Tail(arr)), Head(arr))

\* Math.ceil(n * p / 100)
CeilPercent(n, p) == (n * p + 99) \div 100

\* getPercentile(arr, p): arr[Math.max(0, Math.ceil(arr.length * p / 100) - 1)]
getPercentile(arr, p) ==
  LET index == CeilPercent(Len(arr), p) - 1 IN
  arr[(IF index > 0 THEN index ELSE 0) + 1]

\* customer.email.split('@')[1]: the text between the first and the second @
emailDomain(email) ==
  LET ats == { i \in 1..Len(email) : email[i] = "@" } IN
  IF ats = {} THEN NoText
  ELSE LET first == CHOOSE i \in ats : \A j \in ats : i <= j
           later == { i \in ats : i > first }
           stop == IF later = {} THEN Len(email) + 1
                   ELSE CHOOSE i \in later : \A j \in later : i <= j
       IN SubSeq(email, first + 1, stop - 1)

\* mutant: the premium tier starts above the 90th percentile
inPremiumTier_Strict(spend, spendP90) == spend > spendP90

\* if (spend >= spendP90) analysis.spendingTiers.premium++
inPremiumTier(spend, spendP90) == spend >= spendP90

RECURSIVE FirstSeen(_, _)
\* the keys of an object filled from the values in order: each once, in the
\* order of its first occurrence
FirstSeen(values, seen) ==
  IF values = << >> THEN seen
  ELSE FirstSeen(Tail(values),
                 IF \E i \in 1..Len(seen) : seen[i] = Head(values)
                   THEN seen ELSE Append(seen, Head(values)))

RECURSIVE TagsOf(_, _)
\* the tags of the customers in order (a customer's tags in the model are a
\* set of at most one tag)
TagsOf(pop, i) ==
  IF i > Len(pop) THEN << >>
  ELSE (IF pop[i].tags = {} THEN << >> ELSE <<CHOOSE t \in pop[i].tags : TRUE>>)
       \o TagsOf(pop, i + 1)

RECURSIVE DomainsOf(_, _)
DomainsOf(pop, i) ==
  IF i > Len(pop) THEN << >>
  ELSE (IF emailDomain(pop[i].email) = NoText THEN << >>
        ELSE <<emailDomain(pop[i].email)>>)
       \o DomainsOf(pop, i + 1)

\* analyzeCustomerPatterns(customers): the percentiles, the premium tier,
\* the tag and domain counts (keys in insertion order)
analyzeCustomerPatterns(pop) ==
  LET spends == SortedAscending([i \in 1..Len(pop) |-> pop[i].total_spend])
      visits == SortedAscending([i \in 1..Len(pop) |-> pop[i].total_visits])
      spendP90 == getPercentile(spends, 90)
  IN [spendP25 |-> getPercentile(spends, 25),
      spendP50 |-> getPercentile(spends, 50),
      spendP75 |-> getPercentile(spends, 75),
      spendP90 |-> spendP90,
      visitP25 |-> getPercentile(visits, 25),
      premium |-> Cardinality({ i \in 1..Len(pop) :
                                  inPremiumTier(pop[i].total_spend, spendP90) }),
      tagKeys |-> FirstSeen(TagsOf(pop, 1), << >>),
      tagCount |-> [t \in {Vip, New} |->
                      Cardinality({ i \in 1..Len(pop) : t \in pop[i].tags })],
      domainKeys |-> FirstSeen(DomainsOf(pop, 1), << >>),
      domains |-> [i \in 1..Len(pop) |-> emailDomain(pop[i].email)],
      totalCustomers |-> Len(pop)]

\* a condition of a generated rule
LookalikeCond(field, operation, value) ==
  [field |-> field, operation |-> operation, value |-> value]

\* the entries of the counted keys that pass the filter, first two
FirstTwo(keys) == IF Len(keys) > 2 THEN SubSeq(keys, 1, 2) ELSE keys

\* mutant: the fallback pair is appended only to an empty rule
needsFallback_Empty(conditions) == Len(conditions) < 1

\* if (rules.conditions.length < 2)
needsFallback(conditions) == Len(conditions) < 2

\* the conditions of steps (a) to (e)
primaryConditions(patterns) ==
  LET n == patterns.totalCustomers
      significantTags ==
        SelectSeq(patterns.tagKeys, LAMBDA t : patterns.tagCount[t] * 5 > n)
      domainCount(d) == Cardinality({ i \in 1..n : patterns.domains[i] = d })
      significantDomains ==
        SelectSeq(patterns.domainKeys, LAMBDA d : domainCount(d) * 20 > n * 3)
      tagConds == FirstTwo(significantTags)
      domainConds == FirstTwo(significantDomains)
  IN (IF patterns.spendP50 > 0
        THEN <<LookalikeCond("total_spend", "between",
                             <<patterns.spendP25, (patterns.spendP90 * 12) \div 10>>)>>
        ELSE << >>)
     \o (IF patterns.visitP25 > 0
           THEN <<LookalikeCond("total_visits", "greaterThanOrEqual",
                                <<IF patterns.visitP25 > 1 THEN patterns.visitP25 ELSE 1>>)>>
           ELSE << >>)
     \o (IF patterns.premium * 10 > n
           THEN <<LookalikeCond("total_spend", "greaterThan", <<patterns.spendP75>>)>>
           ELSE << >>)
     \o [i \in 1..Len(tagConds) |-> LookalikeCond("tags", "contains", tagConds[i])]
     \o [i \in 1..Len(domainConds) |->
           LookalikeCond("email", "endsWith", domainConds[i])]

\* the two broader conditions
fallbackConditions(patterns) ==
  << LookalikeCond("total_spend", "greaterThan",
                   <<IF patterns.spendP25 > 1000 THEN patterns.spendP25 ELSE 1000>>),
     LookalikeCond("total_visits", "greaterThan",
                   <<IF patterns.visitP25 \div 2 > 1 THEN patterns.visitP25 \div 2 ELSE 1>>) >>

\* generateLookalikeRules(patterns)
generateLookalikeRules(patterns) ==
  LET conditions == primaryConditions(patterns) IN
  [operator |-> "OR",
   conditions |-> IF needsFallback(conditions)
                    THEN conditions \o fallbackConditions(patterns)
                    ELSE conditions]

\* the analyzer is applied to the reference population
CallGenerateLookalikeRules ==
  /\ lookalike.op = "none"
  /\ lookalike' = [NoLookalike EXCEPT
                     !.op = "generateLookalikeRules",
                     !.rules = generateLookalikeRules(analyzeCustomerPatterns(customers))]
  /\ UNCHANGED <<customers, resp, segVars, campVars, orderVars, clock, receipts>>

\* the caller takes the rule; the analyzer may be applied again
ReturnLookalikeRules ==
  /\ lookalike.op = "generateLookalikeRules"
  /\ lookalike' = NoLookalike
  /\ UNCHANGED <<customers, resp, segVars, campVars, orderVars, clock, receipts>>

InitAnalyzer ==
  /\ customers \in Populations
  /\ resp = NoResp
  /\ InitRest

NextAnalyzer == CallGenerateLookalikeRules \/ ReturnLookalikeRules

SpecAnalyzer == InitAnalyzer /\ [][NextAnalyzer]_vars

Analyzed == lookalike.op = "generateLookalikeRules"

Patterns == analyzeCustomerPatterns(customers)

\* C21: for every non-empty reference population the generated rule contains
\* a greaterThanOrEqual condition on total_visits whose value is
\* max(1, 25th percentile of total_visits)
C21_VisitsConditionAlways ==
  Analyzed =>
    \E i \in 1..Len(lookalike.rules.conditions) :
      /\ lookalike.rules.conditions[i].field = "total_visits"
      /\ lookalike.rules.conditions[i].operation = "greaterThanOrEqual"
      /\ lookalike.rules.conditions[i].value =
           <<IF Patterns.visitP25 > 1 THEN Patterns.visitP25 ELSE 1>>

\* C22: every generated rule has operator OR and at least two conditions,
\* and the two fallback conditions are appended exactly when steps (a) to
\* (e) produced fewer than two conditions
C22_OrWithAtLeastTwo ==
  Analyzed =>
    LET primary == primaryConditions(Patterns)
        conds == lookalike.rules.conditions
    IN /\ lookalike.rules.operator = "OR"
       /\ Len(conds) >= 2
       /\ IF Len(primary) < 2
            THEN conds = primary \o fallbackConditions(Patterns)
            ELSE conds = primary

\* a population for which steps (a) to (e) give one condition only
C22_Witness ==
  /\ Analyzed
  /\ Len(primaryConditions(Patterns)) < 2
  /\ Len(lookalike.rules.conditions) = Len(primaryConditions(Patterns)) + 2

\* C30: for every non-empty population the premium tier holds strictly more
\* than a tenth of the population, so the rule has the greaterThan condition
\* on total_spend at the 75th percentile
C30_PremiumAboveTenth ==
  Analyzed =>
    /\ Cardinality({ i \in 1..Len(customers) :
                       customers[i].total_spend >= Patterns.spendP90 }) * 10
         > Len(customers)
    /\ Patterns.premium * 10 > Len(customers)
    /\ \E i \in 1..Len(lookalike.rules.conditions) :
         /\ lookalike.rules.conditions[i].field = "total_spend"
         /\ lookalike.rules.conditions[i].operation = "greaterThan"
         /\ lookalike.rules.conditions[i].value = <<Patterns.spendP75>>

\* a population of ten whose premium tier is exactly two customers
C30_Witness ==
  /\ Analyzed
  /\ Len(customers) >= 10
  /\ Patterns.premium = 2


----------------------------------------------------------------------------
(* SpecRuns: executeCampaign called several times for one campaign *)

RunIds == 1..MaxRuns

\* the campaign as createCampaign left it: owned by u1, targeting segment 1,
\* with the audience counted at creation
CreatedCampaign(store) ==
  [CampaignRow(1, "u1") EXCEPT
     !.audience_size = countCustomersBySegment(StoredSegment(store).rules,
                                               store, FALSE).count]

InitRuns ==
  /\ lookalike = NoLookalike
  /\ receipts = [n \in ReceiptIds |-> NoReceipt]
  /\ customers \in StoreInputs
  /\ segments = [s \in {1} |-> StoredSegment(customers)]
  /\ resp = NoResp
  /\ segResp = NoSegResp
  /\ refresh = [r \in RefIds |-> NoRefresh]
  /\ campaigns = [c \in {1} |-> CreatedCampaign(customers)]
  /\ exec = [e \in RunIds |-> NoExec]
  /\ cons = NoCons
  /\ logs = {}
  /\ published = {}
  /\ orders = {}
  /\ queue = {}
  /\ handlers = << >>
  /\ clock = 1

\* POST /campaigns/:id/execute by either user, the invocations numbered in
\* order of arrival; their awaits interleave
RunSteps ==
  \/ \E e \in RunIds :
       /\ exec[e].pc = "idle"
       /\ IF e = 1 THEN TRUE ELSE exec[e - 1].pc # "idle"
       /\ \E u \in Users, f \in BOOLEAN : ExecBegin(e, 1, u, f)
  \/ \E e \in RunIds, f \in BOOLEAN : ExecMark(e, f)
  \/ \E e \in RunIds :
       /\ exec[e].pc = "running"
       /\ \E outcomes \in [CustIds -> DeliveryOutcomes], f \in BOOLEAN :
            ExecRun(e, outcomes, f)
  \/ \E e \in RunIds, f \in BOOLEAN : ExecFinish(e, f)
  \/ \E e \in RunIds, f \in BOOLEAN : ExecFail(e, f)

\* PUT /customers/:id: a customer falls below the segment's threshold
CustomerLeavesSegment ==
  \E id \in CustIds :
    /\ customers[id].total_spend > 10000
    /\ updateCustomer(id, Customer(500, 0, {}, <<"b", "@", "y">>), FALSE)

NextRuns == RunSteps \/ CustomerLeavesSegment

SpecRuns == InitRuns /\ [][NextRuns]_vars

\* the invocation has stored PROCESSING and has not yet stored its result
InProgress(e) ==
  /\ exec[e].wrote = "PROCESSING"
  /\ exec[e].pc \in {"running", "finishing", "failing"}

\* the invocation was turned away by the status check
RejectedAsProcessing(e) ==
  exec[e].error = "Campaign is currently being processed"

\* C23: at most one execution of a campaign is in progress at any time: an
\* executeCampaign call arriving while an earlier one has not finished is
\* rejected with 'Campaign is currently being processed' and sends nothing,
\* under every interleaving.
C23_OneExecutionAtATime ==
  /\ Cardinality({ e \in DOMAIN exec : InProgress(e) }) <= 1
  /\ \A e \in DOMAIN exec :
       RejectedAsProcessing(e) => \A id \in CustIds : exec[e].attempts[id] = 0


\* C24: an executeCampaign call by a user who did not create the campaign
\* changes nothing: status, counters and delivery logs are the same before
\* and after every step of the rejected call.
C24_NonCreatorChangesNothing ==
  [][ \A e \in DOMAIN exec :
        ( /\ exec'[e] # exec[e]
          /\ exec'[e].campaignId \in DOMAIN campaigns
          /\ campaigns[exec'[e].campaignId].created_by # exec'[e].userId )
        => (campaigns' = campaigns /\ logs' = logs) ]_vars

\* C25: an executeCampaign call rejected because the campaign is already
\* PROCESSING leaves the campaign row unchanged in every one of its steps, so
\* the status stays PROCESSING until the running execution stores COMPLETED
\* or FAILED.
C25_RejectedLeavesRowUnchanged ==
  [][ \A e \in DOMAIN exec :
        (exec'[e] # exec[e] /\ exec'[e].error = "Campaign is currently being processed")
        => campaigns' = campaigns ]_vars

\* C26: whenever executeCampaign stores COMPLETED, the stored sent_count plus
\* failed_count equals the stored audience_size, which is the number of
\* customers that execution resolved.
C26_CompletedCountsAddUp ==
  [][ \A e \in DOMAIN exec :
        (exec[e].pc = "finishing" /\ exec'[e].pc = "done" /\ exec'[e].wrote = "COMPLETED")
        => LET row == campaigns'[exec[e].campaignId] IN
           /\ row.sent_count + row.failed_count = row.audience_size
           /\ row.audience_size = Cardinality(exec[e].customers) ]_vars

\* the steps of invocation e after its first read
RunStepOf(e) ==
  \/ \E f \in BOOLEAN : ExecMark(e, f)
  \/ /\ exec[e].pc = "running"
     /\ \E outcomes \in [CustIds -> DeliveryOutcomes], f \in BOOLEAN :
          ExecRun(e, outcomes, f)
  \/ \E f \in BOOLEAN : ExecFinish(e, f)
  \/ \E f \in BOOLEAN : ExecFail(e, f)

\* every awaited store call and delivery settles, so the event loop resumes
\* each invocation that has not returned
SpecRunsFair ==
  InitRuns /\ [][NextRuns]_vars /\ \A e \in RunIds : WF_vars(RunStepOf(e))

\* C29: every executeCampaign invocation that stored PROCESSING eventually
\* stores COMPLETED or FAILED before it returns or throws, and once no
\* execution is running the campaign is not PROCESSING.
C29_ProcessingEnds ==
  /\ \A e \in RunIds :
       (exec[e].pc = "running")
         ~> (exec[e].pc = "done" /\ exec[e].wrote \in {"COMPLETED", "FAILED"})
  /\ []( (\A e \in RunIds : exec[e].pc \in {"idle", "done"})
           => campaigns[1].status # "PROCESSING" )


----------------------------------------------------------------------------
(* SpecReceipts: POST /receipt, updateMessageStatus, processDeliveryStatus *)

\* the status values a vendor callback may carry
ReceiptStatuses == { "SENT", "FAILED", "sent" }

\* deliveryReceiptSchema: status: Joi.string().valid("SENT", "FAILED")
validateReceipt(status) == status \in { "SENT", "FAILED" }

\* const updateField = data.status === "sent" ? "sent_count" : "failed_count"
updateFieldOf(status) == IF status = "sent" THEN "sent_count" ELSE "failed_count"

\* router.post("/receipt"): a valid body is published on delivery:status as
\* { messageId, status, customerId, campaignId, timestamp } and handed to
\* processDeliveryStatus by the subscriber; an invalid one is answered 400
PostReceipt(n, status, campaignId) ==
  /\ receipts[n].pc = "idle"
  /\ IF n = 1 THEN TRUE ELSE receipts[n - 1].pc # "idle"
  /\ receipts' = IF validateReceipt(status)
                   THEN [receipts EXCEPT ![n] =
                           [NoReceipt EXCEPT !.pc = "received", !.status = status,
                                             !.campaignId = campaignId]]
                   ELSE receipts
  /\ UNCHANGED <<customers, resp, segVars, campVars, orderVars, clock, lookalike>>

\* communication_logs.update({status, sent_at}).eq("id", data.deliveryId): the
\* message has no deliveryId, so the filter compares id with undefined; the
\* store refuses it (the handler returns) or it matches no row
UpdateDeliveryLog(n, refused) ==
  /\ receipts[n].pc = "received"
  /\ receipts' = [receipts EXCEPT ![n] =
       IF refused THEN [@ EXCEPT !.pc = "returned"]
       ELSE [@ EXCEPT !.pc = "fetching",
                      !.updateField = updateFieldOf(receipts[n].status)]]
  /\ UNCHANGED <<customers, resp, segVars, campVars, orderVars, clock, lookalike>>

\* campaigns.select(updateField).eq("id", data.campaignId).single()
FetchCount(n, fault) ==
  /\ receipts[n].pc = "fetching"
  /\ receipts' = [receipts EXCEPT ![n] =
       IF fault \/ receipts[n].campaignId \notin DOMAIN campaigns
         THEN [@ EXCEPT !.pc = "failed"]
         ELSE [@ EXCEPT !.pc = "updating",
                        !.count = IF receipts[n].updateField = "sent_count"
                                    THEN campaigns[receipts[n].campaignId].sent_count
                                    ELSE campaigns[receipts[n].campaignId].failed_count]]
  /\ UNCHANGED <<customers, resp, segVars, campVars, orderVars, clock, lookalike>>

\* [updateField]: (campaign[updateField] || 0) + 1, from the value read
writtenCount(row, field, count) == count + 1

\* campaigns.update({ [updateField]: count + 1 }).eq("id", data.campaignId)
UpdateCount(n, fault) ==
  /\ receipts[n].pc = "updating"
  /\ LET c == receipts[n].campaignId
         field == receipts[n].updateField
         value == writtenCount(campaigns[c], field, receipts[n].count)
     IN IF fault
          THEN /\ receipts' = [receipts EXCEPT ![n].pc = "failed"]
               /\ campaigns' = campaigns
          ELSE /\ receipts' = [receipts EXCEPT ![n].pc = "done"]
               /\ campaigns' = [campaigns EXCEPT ![c] =
                    IF field = "sent_count" THEN [@ EXCEPT !.sent_count = value]
                    ELSE [@ EXCEPT !.failed_count = value]]
  /\ UNCHANGED <<customers, resp, segVars, exec, cons, logs, published,
                 orderVars, clock, lookalike>>

NextReceipts ==
  \/ \E n \in ReceiptIds, status \in ReceiptStatuses, c \in DOMAIN campaigns :
       PostReceipt(n, status, c)
  \/ \E n \in ReceiptIds, refused \in BOOLEAN : UpdateDeliveryLog(n, refused)
  \/ \E n \in ReceiptIds, f \in BOOLEAN : FetchCount(n, f)
  \/ \E n \in ReceiptIds, f \in BOOLEAN : UpdateCount(n, f)

SpecReceipts == InitRuns /\ [][NextReceipts]_vars

\* processDeliveryStatus has returned for the receipt without an error of
\* the campaigns table
Processed(n) == receipts[n].pc \in { "done", "returned" }

ReceiptsQuiet == \A n \in ReceiptIds : receipts[n].pc \in { "idle", "done", "returned", "failed" }

\* C27: after the delivery-status consumer has processed a receipt with status
\* SENT the campaign's sent_count is one higher and its failed_count unchanged,
\* and a FAILED receipt raises failed_count by one: with every receipt
\* processed, each counter is the number of processed receipts of its status.
C27_ReceiptCounted ==
  ReceiptsQuiet =>
    \A c \in DOMAIN campaigns :
      /\ campaigns[c].sent_count =
           Cardinality({ n \in ReceiptIds : /\ Processed(n)
                                            /\ receipts[n].campaignId = c
                                            /\ receipts[n].status = "SENT" })
      /\ campaigns[c].failed_count =
           Cardinality({ n \in ReceiptIds : /\ Processed(n)
                                            /\ receipts[n].campaignId = c
                                            /\ receipts[n].status = "FAILED" })


----------------------------------------------------------------------------
(* The two resolvers *)

\* C28: for the same rule and the same customer store the consumer's
\* getTargetCustomers selects exactly the customers findCustomersBySegment
\* selects.
C28_ConsumerAgreesWithResolver ==
  (resp.op = "find" /\ resp.ok)
    => getTargetCustomers(resp.rules, customers, FALSE) = resp.rows


====
